---- MODULE Spec2Model ----
(***************************************************************************)
(* Active-user presence system: unload intent classifier (UnloadHandler),  *)
(* cross-tab leader election (TabLeaderManager + ActiveUsersClient) and    *)
(* the server presence store (RedisAdapter + PresenceService).             *)
(* Each subsystem has its own specification over the shared variables.     *)
(***************************************************************************)
EXTENDS Integers, Naturals, Sequences, FiniteSets, TLC

(***************************************************************************)
(* Bounds of the model (not program constants).                            *)
(***************************************************************************)
MaxDocs == 2
MaxTabs == 2
MaxInbox == 2
MaxPending == 1
MaxEvents == 4
MaxInFlight == 2
Quantum == 300
MaxClock == 48
ClockStep == 12
MaxRandom == 2
MaxSwitchTimers == 2
MaxSockets == 2
MaxTicks == 5
PingQuantum == 5000
MaxPingClock == 200000

VARIABLES
  \* ---- TabLeaderManager + ActiveUsersClient, one record per tab ----
  tab,                        \* tabId -> the tab's objects (fields below, see ClosedTab)
  inbox,                      \* tabId -> BroadcastChannel messages queued for its onmessage
  lastSent,                   \* the request sent to the server by the step just taken (NoRequest if none)
  isDesktop,                  \* PassiveActiveManager.isDesktop / !isMobileOrTablet()
  events,                     \* user and long-period timer events so far (bounds the run)
  \* ---- RedisAdapter + PresenceService + WebSocketServer, one (customer, session) ----
  redis,                      \* the key presence:{customerId}:{sessionId} in Redis
  join,                       \* the handleJoin call in progress (position, payload)
  refresh,                    \* the PresenceService.refreshTTL call in progress
  leave,                      \* mode of the handleLeave call in progress
  auth,                       \* the WebSocket 'auth' message handler in progress
  ws,                         \* the session's socket: "none" or "open" (customerId set)
  clientInfo,                 \* clientInfoMap.get(ws)?.device, "unset" before auth completes
  disconnect,                 \* handleWebSocketDisconnect and its entry in disconnectTimers
  sweeper,                    \* the runStaleSessionCleanup call in progress
  sessionDevice,              \* payload.device of the session's JOINs, "unset" before the first
  rejoin,                     \* history: a JOIN that arrived after the close and before the 10 s
                              \* timer fired is "started", then "processed" ("none" otherwise)
  completed,                  \* the request whose handler finished in the step just taken
  removedBy,                  \* who deleted the key in the step just taken ("none" if nobody)
  \* ---- UnloadHandler (client/lifecycle/unload.ts) ----
  leaveSent,                  \* private leaveSent
  isInternalNavPlanned,       \* private isInternalNavPlanned
  isReloadPlanned,            \* private isReloadPlanned
  plannedExternal,            \* private plannedExternal
  visibilityChangeTimeoutId,  \* TRUE iff the 10 ms decision timer is pending
  navIntent,                  \* sessionStorage[NAV_INTENT_KEY], "unknown" = absent
  refreshFlag,                \* sessionStorage[REFRESH_FLAG_KEY] === 'true'
  visibilityState,            \* document.visibilityState
  page,                       \* lifecycle phase of the document
  docs,                       \* documents loaded in this tab so far
  navType,                    \* PerformanceNavigationTiming.type of the document
  fsmRemoved,                 \* the session-mode FSM is in removed (caller of sendLeave/reset)
  leaves,                     \* LEAVE requests dispatched since leaveSent was last reset
  extMarked,                  \* history: markIntent('external') ran since that reset
  reloadMarked,               \* history: a reload signal set the reload flag since that reset
  bfUnknown,                  \* history: pagehide(persisted) saw intent unknown
  lastEvent,                  \* history: the listener that ran last
  \* ---- SessionState (one customer, one browser profile) ----
  localStorage,               \* au_session_{customerId} and au_session_timestamp_{customerId}
  sessionState,               \* tabId -> the tab's SessionState and its constructor's position
  clock,                      \* Date.now(), in hours
  \* ---- HybridConnectionManager of one (leader) tab, with its two transports ----
  connection,                 \* HybridConnectionManager fields; history: stopped, stop() was called
  pollingClient,              \* PollingClient fields
  wsClient,                   \* WebSocketClient fields
  visible,                    \* VisibilityTracker state last handed to updateAppState
  request,                    \* what the step just taken sent to the server ("none" if nothing)
  \* ---- WebSocketServer connections, BroadcastService, EMAService ----
  socket,                     \* socket -> readyState, the handler closure's customerId, auths awaiting getPresence
  wsClients,                  \* BroadcastService.wsClients: customerId -> set of sockets
  emaKey,                     \* customerId -> value of the key ema:{customerId} (<<>> if missing)
  counts,                     \* history: customerId -> the counts sampled by the EMA ticks so far
  metricsUpdate,              \* the metrics:update sent by the step just taken, and the sockets it went to
  \* ---- TabLeaderManager tab registry, one per tab of the session ----
  tabState,                   \* tabId -> "closed", or the visibility state of the open tab
  allTabs,                    \* tabId -> TabLeaderManager.allTabs: tabId -> state ("none" if no entry)
  lastSeenOld,                \* tabId -> the peers whose entry has a lastSeen more than 30 s ago
  channel,                    \* tabId -> registry messages queued for its onmessage
  \* ---- PresenceService.handleBeat (legacy BEAT) on the presence key ----
  beat,                       \* the handleBeat in progress: position, record to write, TTL read
  \* ---- WebSocketServer liveness check of one connection ----
  liveness                    \* readyState, missedPongCount, the two intervals' next expiry, time

varsUnload == <<leaveSent, isInternalNavPlanned, isReloadPlanned, plannedExternal,
                visibilityChangeTimeoutId, navIntent, refreshFlag, visibilityState,
                page, docs, navType, fsmRemoved, leaves, extMarked, reloadMarked, bfUnknown,
                lastEvent>>

varsLeader == <<tab, inbox, lastSent, isDesktop, events>>

varsStore == <<redis, join, refresh, leave, auth, ws, clientInfo, disconnect, sweeper,
               sessionDevice, rejoin, completed, removedBy>>

varsSession == <<localStorage, sessionState, clock>>

varsConnection == <<connection, pollingClient, wsClient, visible, request>>

varsMetrics == <<socket, wsClients, emaKey, counts, metricsUpdate>>

varsRegistry == <<tabState, allTabs, lastSeenOld, channel>>

varsBeat == <<beat, liveness>>

vars == <<varsUnload, varsLeader, varsStore, varsSession, varsConnection, varsMetrics,
          varsRegistry, varsBeat>>

(***************************************************************************)
(*                        UNLOAD INTENT CLASSIFIER                         *)
(***************************************************************************)
DestType == {"internal", "external", "reload", "unknown"}

\* markIntent(kind): the in-memory flags after the call
MarkFlags(kind, pe, ip, rp) ==
  IF kind = "external" THEN [pe |-> TRUE, ip |-> FALSE, rp |-> FALSE]
  ELSE IF kind = "internal" THEN
    IF ~pe THEN [pe |-> pe, ip |-> TRUE, rp |-> FALSE]
    ELSE [pe |-> pe, ip |-> ip, rp |-> rp]
  ELSE IF kind = "reload" THEN
    IF ~pe THEN [pe |-> pe, ip |-> FALSE, rp |-> TRUE]
    ELSE [pe |-> pe, ip |-> ip, rp |-> rp]
  ELSE [pe |-> pe, ip |-> ip, rp |-> rp]

\* markIntent(kind): the effective intent written to sessionStorage
EffectiveIntent(kind, pe) ==
  IF kind = "external" THEN "external"
  ELSE IF kind \in {"internal", "reload"} THEN (IF ~pe THEN kind ELSE "external")
  ELSE kind

MarkIntent(kind) ==
  LET f == MarkFlags(kind, plannedExternal, isInternalNavPlanned, isReloadPlanned) IN
  /\ plannedExternal' = f.pe
  /\ isInternalNavPlanned' = f.ip
  /\ isReloadPlanned' = f.rp
  /\ navIntent' = EffectiveIntent(kind, plannedExternal)
  /\ extMarked' = (extMarked \/ kind = "external")
  /\ reloadMarked' = (reloadMarked \/ kind = "reload")

\* readIntentFromStorage()
ReadIntentFromStorage == navIntent

\* the reload test with the REFRESH_FLAG_KEY lookup left out
IsReloadNoFlag(rf, si, rp) == si = "reload" \/ rp

\* the reload test shared by decideAndMaybeSendLeave and the beforeunload listener
IsReload(rf, si, rp) == rf \/ si = "reload" \/ rp

\* decideAndMaybeSendLeave: the branch of the decision matrix that is taken
Decision(rf, si, rp, ip, pe) ==
  IF IsReload(rf, si, rp) THEN "reload"
  ELSE IF ip \/ si = "internal" THEN "internal"
  ELSE IF pe \/ si = "external" THEN "external"
  ELSE "unknown"

CurrentDecision ==
  Decision(refreshFlag, ReadIntentFromStorage, isReloadPlanned,
           isInternalNavPlanned, plannedExternal)

\* a LEAVE request as dispatched, with the situation it was dispatched in
LeaveRec(mode, reason, force, nav) ==
  [mode |-> mode, reason |-> reason, force |-> force, nav |-> nav,
   ext |-> extMarked,
   reload |-> (reloadMarked \/ IsReload(refreshFlag, navIntent, isReloadPlanned)),
   intent |-> CurrentDecision]

\* clearIntentFlags()
ClearIntentFlags ==
  /\ isInternalNavPlanned' = FALSE
  /\ isReloadPlanned' = FALSE
  /\ plannedExternal' = FALSE
  /\ navIntent' = "unknown"

\* sendLeaveFinal(reason) / sendLeavePending(reason), given the leaveSent value they see
SendLeaveRec(sent, mode, reason, force, nav) ==
  IF sent THEN leaves ELSE Append(leaves, LeaveRec(mode, reason, force, nav))

\* sendLeaveFinal / sendLeavePending without the line `this.leaveSent = true`
SendLeaveFlagForgotten(sent) == sent

\* sendLeaveFinal / sendLeavePending: the value of leaveSent after the call
SendLeaveFlag(sent) == TRUE

\* decideAndMaybeSendLeave(source)
DecideAndMaybeSendLeave(nav) ==
  IF leaveSent
  THEN UNCHANGED <<leaveSent, isInternalNavPlanned, isReloadPlanned, plannedExternal,
                   navIntent, refreshFlag, leaves>>
  ELSE LET d == CurrentDecision IN
       /\ ClearIntentFlags
       /\ leaveSent' = IF d \in {"reload", "internal"} THEN TRUE ELSE SendLeaveFlag(leaveSent)
       /\ refreshFlag' = IF d = "reload" THEN FALSE ELSE refreshFlag
       /\ leaves' = IF d = "external" THEN SendLeaveRec(leaveSent, "final", "external", FALSE, nav)
                    ELSE IF d = "unknown" THEN SendLeaveRec(leaveSent, "pending", "unknown", FALSE, nav)
                    ELSE leaves

\* the other subsystems are not touched by the unload handler
FrameUnload ==
  UNCHANGED <<varsLeader, varsStore, varsSession, varsConnection, varsMetrics, varsRegistry,
              varsBeat>>

Ghosts == <<extMarked, reloadMarked>>
Flags == <<isInternalNavPlanned, isReloadPlanned, plannedExternal, navIntent>>
Env == <<page, docs, navType, fsmRemoved, visibilityState, bfUnknown>>

\* ---- intent signals --------------------------------------------------
\* keydown listener: F5 / Ctrl-R / Cmd-R
KeydownReload ==
  /\ page = "live"
  /\ MarkIntent("reload")
  /\ refreshFlag' = TRUE
  /\ lastEvent' = "keydown"
  /\ UNCHANGED <<leaveSent, visibilityChangeTimeoutId, leaves, Env>>
  /\ FrameUnload

\* intercepted window.location.reload()
LocationReload ==
  /\ page = "live"
  /\ MarkIntent("reload")
  /\ refreshFlag' = TRUE
  /\ lastEvent' = "reloadCall"
  /\ UNCHANGED <<leaveSent, visibilityChangeTimeoutId, leaves, Env>>
  /\ FrameUnload

\* Navigation API navigate listener
NavigateEvent(isReloadNav, same) ==
  /\ page = "live"
  /\ IF isReloadNav
     THEN MarkIntent("reload") /\ refreshFlag' = TRUE
     ELSE MarkIntent(IF same THEN "internal" ELSE "external") /\ refreshFlag' = refreshFlag
  /\ lastEvent' = "navigate"
  /\ UNCHANGED <<leaveSent, visibilityChangeTimeoutId, leaves, Env>>
  /\ FrameUnload

\* click listener (capture) on a link
ClickLink(openInNewTab, isSameSite) ==
  /\ page = "live"
  /\ MarkIntent(IF openInNewTab THEN "internal"
                ELSE IF isSameSite THEN "internal" ELSE "external")
  /\ lastEvent' = "click"
  /\ UNCHANGED <<leaveSent, visibilityChangeTimeoutId, refreshFlag, leaves, Env>>
  /\ FrameUnload

\* submit listener
SubmitForm(isSameSite) ==
  /\ page = "live"
  /\ MarkIntent(IF isSameSite THEN "internal" ELSE "external")
  /\ lastEvent' = "submit"
  /\ UNCHANGED <<leaveSent, visibilityChangeTimeoutId, refreshFlag, leaves, Env>>
  /\ FrameUnload

\* hashchange / popstate / spa:navigate listeners
SpaNavigate ==
  /\ page = "live"
  /\ MarkIntent("internal")
  /\ lastEvent' = "spa"
  /\ UNCHANGED <<leaveSent, visibilityChangeTimeoutId, refreshFlag, leaves, Env>>
  /\ FrameUnload

SignalEvents == {"keydown", "reloadCall", "navigate", "click", "submit", "spa"}

\* ---- decision points -------------------------------------------------
\* visibilitychange listener
VisibilityChange(newState) ==
  /\ newState # visibilityState
  /\ \/ page = "live"
     \/ page \in {"pagehidden", "cached"} /\ newState = "hidden"
     \/ page = "restored" /\ newState = "visible"
  /\ visibilityState' = newState
  /\ page' = IF page = "restored" THEN "live" ELSE page
  /\ visibilityChangeTimeoutId' =
       IF newState = "hidden" /\ ~leaveSent THEN TRUE
       ELSE IF newState = "visible" THEN FALSE
       ELSE visibilityChangeTimeoutId
  /\ lastEvent' = "visibilitychange"
  /\ UNCHANGED <<leaveSent, Flags, refreshFlag, leaves, Ghosts, docs, navType, fsmRemoved, bfUnknown>>
  /\ FrameUnload

\* the 10 ms timer armed by the visibilitychange listener
VisibilityTimeout ==
  /\ visibilityChangeTimeoutId
  /\ page = "live"
  /\ DecideAndMaybeSendLeave(FALSE)
  /\ visibilityChangeTimeoutId' = FALSE
  /\ lastEvent' = "visibilityTimer"
  /\ UNCHANGED <<Ghosts, Env>>
  /\ FrameUnload

\* pagehide listener
PageHide(persisted) ==
  /\ page \in {"live", "leaving"}
  /\ visibilityChangeTimeoutId' = FALSE
  /\ IF persisted /\ ReadIntentFromStorage = "unknown"
     THEN /\ ClearIntentFlags
          /\ bfUnknown' = TRUE
          /\ UNCHANGED <<leaveSent, refreshFlag, leaves>>
     ELSE /\ DecideAndMaybeSendLeave(TRUE)
          /\ bfUnknown' = bfUnknown
  /\ page' = IF persisted THEN "cached" ELSE "pagehidden"
  /\ lastEvent' = "pagehide"
  /\ UNCHANGED <<Ghosts, docs, navType, fsmRemoved, visibilityState>>
  /\ FrameUnload

\* freeze listener
Freeze ==
  /\ \/ page = "cached"
     \/ page = "live" /\ visibilityState = "hidden"
  /\ visibilityChangeTimeoutId' = FALSE
  /\ DecideAndMaybeSendLeave(page = "cached")
  /\ lastEvent' = "freeze"
  /\ UNCHANGED <<Ghosts, Env>>
  /\ FrameUnload

\* unload listener
Unload ==
  /\ page = "pagehidden"
  /\ visibilityChangeTimeoutId' = FALSE
  /\ DecideAndMaybeSendLeave(TRUE)
  /\ page' = "gone"
  /\ lastEvent' = "unload"
  /\ UNCHANGED <<Ghosts, docs, navType, fsmRemoved, visibilityState, bfUnknown>>
  /\ FrameUnload

\* beforeunload listener; ok is what navigator.sendBeacon returns
BeforeUnload(ok) ==
  /\ page = "live"
  /\ page' = "leaving"
  /\ IF ~leaveSent /\ ~IsReload(refreshFlag, ReadIntentFromStorage, isReloadPlanned) /\ ok
     THEN /\ leaves' = Append(leaves, LeaveRec("pending", "tabclose", FALSE, TRUE))
          /\ leaveSent' = TRUE
     ELSE UNCHANGED <<leaves, leaveSent>>
  /\ lastEvent' = "beforeunload"
  /\ UNCHANGED <<Flags, refreshFlag, visibilityChangeTimeoutId, Ghosts, docs, navType,
                 fsmRemoved, visibilityState, bfUnknown>>
  /\ FrameUnload

\* ---- page arrival ----------------------------------------------------
\* pageshow listener on a page restored from the back/forward cache: the state
\* reset, then the arrival checks (navigation type, REFRESH_FLAG_KEY)
PageShowPersisted ==
  /\ page = "cached"
  /\ leaveSent' = FALSE
  /\ isInternalNavPlanned' = FALSE
  /\ plannedExternal' = FALSE
  /\ isReloadPlanned' = (navType = "reload")
  /\ navIntent' = IF navType = "reload" THEN "reload" ELSE "unknown"
  /\ refreshFlag' = (navType = "reload")
  /\ page' = IF visibilityState = "hidden" THEN "restored" ELSE "live"
  /\ leaves' = <<>>
  /\ extMarked' = FALSE
  /\ reloadMarked' = (navType = "reload")
  /\ bfUnknown' = FALSE
  /\ lastEvent' = "pageshow"
  /\ UNCHANGED <<visibilityChangeTimeoutId, docs, navType, fsmRemoved, visibilityState>>
  /\ FrameUnload

\* constructor + setup() in a new document of the same tab (sessionStorage
\* survives). viaReload: the navigation type is 'reload'; shown: the pageshow
\* listener was registered before the event fired
NewDocument(viaReload, shown) ==
  /\ page = "gone"
  /\ docs < MaxDocs
  /\ docs' = docs + 1
  /\ navType' = IF viaReload THEN "reload" ELSE "navigate"
  /\ page' = "live"
  /\ visibilityState' = "visible"
  /\ leaveSent' = FALSE
  /\ visibilityChangeTimeoutId' = FALSE
  /\ fsmRemoved' = FALSE
  /\ leaves' = <<>>
  /\ bfUnknown' = FALSE
  /\ extMarked' = FALSE
  /\ LET arrivedReload == shown /\ (viaReload \/ refreshFlag) IN
     /\ isInternalNavPlanned' = FALSE
     /\ plannedExternal' = FALSE
     /\ isReloadPlanned' = arrivedReload
     /\ navIntent' = IF arrivedReload THEN "reload" ELSE navIntent
     /\ refreshFlag' = (refreshFlag \/ (shown /\ viaReload))
     /\ reloadMarked' = arrivedReload
  /\ lastEvent' = "pageshow"
  /\ FrameUnload

\* ---- public API used by the session-mode FSM -------------------------
\* sendLeave(force = true), called when the FSM enters removed
SendLeaveForce ==
  /\ page = "live"
  /\ ~fsmRemoved
  /\ fsmRemoved' = TRUE
  /\ leaves' = SendLeaveRec(FALSE, "pending", "tabclose", TRUE, FALSE)
  /\ leaveSent' = TRUE
  /\ lastEvent' = "sendLeave"
  /\ UNCHANGED <<Flags, refreshFlag, visibilityChangeTimeoutId, Ghosts, page, docs,
                 navType, visibilityState, bfUnknown>>
  /\ FrameUnload

\* resetLeaveSentFlag(), called when the FSM leaves removed
ResetLeaveSentFlag ==
  /\ page = "live"
  /\ fsmRemoved
  /\ fsmRemoved' = FALSE
  /\ leaveSent' = FALSE
  /\ leaves' = <<>>
  /\ extMarked' = FALSE
  /\ reloadMarked' = FALSE
  /\ bfUnknown' = FALSE
  /\ lastEvent' = "resetLeaveSent"
  /\ UNCHANGED <<Flags, refreshFlag, visibilityChangeTimeoutId, page, docs, navType,
                 visibilityState>>
  /\ FrameUnload

(***************************************************************************)
(*              CROSS-TAB LEADER ELECTION AND THE TAB'S CLIENT             *)
(* Time is abstracted: a pending timer may fire at any later moment (tabs  *)
(* have their own event loops and background timers are throttled), and    *)
(* Date.now() - lastLeaderBeat is kept as an age class.                    *)
(***************************************************************************)
Tabs == 1..MaxTabs

\* Date.now() - lastLeaderBeat: never (lastLeaderBeat = 0), <= 100 ms,
\* < 3000 ms, older
BeatAge == {"never", "fresh", "recent", "stale"}

\* a tab that is not open; also the field values right after construction
ClosedTab ==
  [phase |-> "closed",
   isLeader |-> FALSE,                 \* TabLeaderManager.isLeader (= store.isTabLeader())
   lastLeaderBeat |-> "never",         \* TabLeaderManager.lastLeaderBeat, as an age
   candidates |-> {},                  \* TabLeaderManager.candidates
   existingLeaderTimer |-> FALSE,      \* 100 ms timer of checkForExistingLeader
   triggerTimers |-> 0,                \* pending 20 ms timers of triggerLeaderElection
   electionTimers |-> 0,               \* pending 80 ms timers of participateInElection
   visibility |-> "foreground",        \* VisibilityTracker.currentState
   visibilityTimers |-> 0,             \* pending 500 ms timers of handleVisibilityChange
   currentSessionMode |-> "active",    \* ActiveUsersClient.currentSessionMode
   currentState |-> "active",          \* PassiveActiveManager.currentState
   visibilityState |-> "foreground",   \* PassiveActiveManager.visibilityState
   foregroundInactivityTimer |-> FALSE,
   passiveInactivityTimer |-> FALSE,
   joinStage |-> "idle",               \* sendJoin: idle / detect (awaiting detectDevice) / cooldown / thrown
   joinCaller |-> "none",              \* the caller awaiting the sendJoin in flight
   rejoinForeground |-> TRUE,          \* currentVisibility captured by onRejoinToRedis
   ttlRefreshTimer |-> FALSE,          \* ActiveUsersClient.ttlRefreshTimer is set
   mobileCleanupTimer |-> FALSE]

Min(a, b) == IF a < b THEN a ELSE b

\* sort()[0] of a set of tab ids
Smallest(S) == CHOOSE x \in S : \A y \in S : x <= y

\* ActiveUsersClient.pendingJoin
PendingJoin(r) == r.joinStage # "idle"

\* ---- ActiveUsersClient / PassiveActiveManager helpers (on one tab's record)
StartTTLRefresh(r) == [r EXCEPT !.ttlRefreshTimer = TRUE]

StopTTLRefresh(r) == [r EXCEPT !.ttlRefreshTimer = FALSE]

ShouldBeActive(r) == isDesktop \/ r.isLeader

StartTracking(r) ==
  IF ~ShouldBeActive(r) THEN r
  ELSE [r EXCEPT !.currentState = "active", !.visibilityState = "foreground",
                 !.foregroundInactivityTimer = TRUE]

StartTrackingWithVisibility(r, isForeground) ==
  IF ~ShouldBeActive(r) THEN r
  ELSE IF isForeground
  THEN [r EXCEPT !.visibilityState = "foreground", !.currentState = "active",
                 !.foregroundInactivityTimer = TRUE, !.passiveInactivityTimer = FALSE]
  ELSE [r EXCEPT !.visibilityState = "background", !.currentState = "passive_active",
                 !.foregroundInactivityTimer = FALSE, !.passiveInactivityTimer = TRUE]

StopTracking(r) ==
  [r EXCEPT !.foregroundInactivityTimer = FALSE, !.passiveInactivityTimer = FALSE]

HandleLeaderChange(r, isL) ==
  IF isL THEN StartTracking(StartTTLRefresh(r))
  ELSE StopTracking(StopTTLRefresh(r))

\* the code after `await this.sendJoin()` in each caller
AfterJoin(r, caller) ==
  IF caller = "init" THEN StartTracking(r)
  ELSE IF caller \in {"modeChange", "foreground"}
  THEN (IF r.isLeader THEN StartTTLRefresh(r) ELSE r)
  ELSE IF caller = "rejoin"
  THEN StartTrackingWithVisibility(IF r.isLeader THEN StartTTLRefresh(r) ELSE r,
                                   r.rejoinForeground)
  ELSE r

\* sendJoin() called by `caller`: a call that finds pendingJoin set returns at
\* once and the caller continues; otherwise the request is in flight
SendJoin(r, caller) ==
  IF PendingJoin(r) THEN AfterJoin(r, caller)
  ELSE [r EXCEPT !.joinStage = "detect", !.joinCaller = caller]

HandleSessionModeChange(r, newMode) ==
  IF r.currentSessionMode = newMode THEN r
  ELSE SendJoin([r EXCEPT !.currentSessionMode = newMode], "modeChange")

TransitionToActive(r) ==
  HandleSessionModeChange(
    [r EXCEPT !.currentState = "active", !.passiveInactivityTimer = FALSE,
              !.foregroundInactivityTimer = TRUE], "active")

TransitionToPassiveActive(r) ==
  HandleSessionModeChange(
    [r EXCEPT !.currentState = "passive_active", !.foregroundInactivityTimer = FALSE,
              !.passiveInactivityTimer = TRUE], "passive_active")

\* onRejoinToRedis
RejoinToRedis(r) ==
  LET fg == r.visibility = "foreground" IN
  SendJoin([r EXCEPT !.rejoinForeground = fg,
                     !.currentSessionMode = IF fg THEN "active" ELSE "passive_active"],
           "rejoin")

\* ---- TabLeaderManager helpers: [r: the tab after the call, out: broadcasts]
BecomeLeaderUnlessBeatSeen(r) ==
  IF r.isLeader \/ r.lastLeaderBeat # "never" THEN [r |-> r, out |-> <<>>]
  ELSE [r |-> HandleLeaderChange([r EXCEPT !.isLeader = TRUE], TRUE),
        out |-> <<"leader_beat">>]

BecomeLeader(r) ==
  IF r.isLeader THEN [r |-> r, out |-> <<>>]
  ELSE [r |-> HandleLeaderChange([r EXCEPT !.isLeader = TRUE], TRUE),
        out |-> <<"leader_beat">>]

ResignLeadership(r) ==
  IF ~r.isLeader THEN r
  ELSE HandleLeaderChange([r EXCEPT !.isLeader = FALSE], FALSE)

ParticipateInElection(r, self) ==
  IF r.isLeader THEN [r |-> r, out |-> <<>>]
  ELSE [r |-> [r EXCEPT !.candidates = {self},
                        !.electionTimers = Min(@ + 1, MaxPending)],
        out |-> <<"leader_candidate">>]

\* broadcast(message) for each type in `types`: queued at every other open tab
Broadcast(from, types, ib) ==
  [u \in Tabs |->
     IF u # from /\ tab[u].phase = "open"
     THEN ib[u] \o [i \in 1..Len(types) |-> [type |-> types[i], tabId |-> from]]
     ELSE ib[u]]

\* the receivers' queues can take n more messages
Room(from, n) ==
  \A u \in Tabs : (u # from /\ tab[u].phase = "open") => Len(inbox[u]) + n <= MaxInbox

NoRequest ==
  [kind |-> "none", tabId |-> 0, isLeader |-> FALSE, session_mode |-> "active",
   cause |-> "none"]

\* a request sent to the server by tab t
Sent(kind, t, r, cause) ==
  [kind |-> kind, tabId |-> t, isLeader |-> r.isLeader,
   session_mode |-> r.currentSessionMode, cause |-> cause]

FrameLeader ==
  UNCHANGED <<varsUnload, varsStore, varsSession, varsConnection, varsMetrics, varsRegistry,
              varsBeat>>

\* one more user or long-period timer event
Event == events < MaxEvents /\ events' = events + 1

\* ---- tab lifecycle ---------------------------------------------------
\* ActiveUsersClient.init() up to the first await inside sendJoin():
\* tabLeader.start() (checkForExistingLeader) and the initial sendJoin()
OpenTab(t) ==
  /\ tab[t].phase = "closed"
  /\ Room(t, 1)
  /\ tab' = [tab EXCEPT ![t] =
       SendJoin([ClosedTab EXCEPT !.phase = "open", !.existingLeaderTimer = TRUE], "init")]
  /\ inbox' = Broadcast(t, <<"leader_election">>, [inbox EXCEPT ![t] = <<>>])
  /\ lastSent' = NoRequest
  /\ UNCHANGED <<isDesktop>>
  /\ Event
  /\ FrameLeader

\* the tab is closed by the user: its document and channel are gone
CloseTab(t) ==
  /\ tab[t].phase = "open"
  /\ tab' = [tab EXCEPT ![t] = [ClosedTab EXCEPT !.phase = "gone"]]
  /\ inbox' = [inbox EXCEPT ![t] = <<>>]
  /\ lastSent' = NoRequest
  /\ UNCHANGED <<isDesktop>>
  /\ Event
  /\ FrameLeader

\* ---- TabLeaderManager ------------------------------------------------
\* channel.onmessage
OnMessage(t) ==
  /\ tab[t].phase = "open"
  /\ inbox[t] # <<>>
  /\ LET m == Head(inbox[t])
         r == tab[t]
         res == IF m.type = "leader_beat"
                THEN [r |-> ResignLeadership([r EXCEPT !.lastLeaderBeat = "fresh"]),
                      out |-> <<>>]
                ELSE IF m.type = "leader_election"
                THEN (IF r.lastLeaderBeat \in {"fresh", "recent"}
                      THEN [r |-> r, out |-> <<>>]
                      ELSE ParticipateInElection(r, t))
                ELSE [r |-> [r EXCEPT !.candidates = @ \cup {m.tabId}], out |-> <<>>]
     IN /\ Room(t, Len(res.out))
        /\ tab' = [tab EXCEPT ![t] = res.r]
        /\ inbox' = Broadcast(t, res.out, [inbox EXCEPT ![t] = Tail(@)])
  /\ lastSent' = NoRequest
  /\ UNCHANGED <<isDesktop, events>>
  /\ FrameLeader

\* the 100 ms timer of checkForExistingLeader
ExistingLeaderTimeout(t) ==
  /\ tab[t].existingLeaderTimer
  /\ LET r == [tab[t] EXCEPT !.existingLeaderTimer = FALSE]
         res == IF ~r.isLeader /\ r.lastLeaderBeat # "fresh"
                THEN BecomeLeader(r) ELSE [r |-> r, out |-> <<>>]
     IN /\ Room(t, Len(res.out))
        /\ tab' = [tab EXCEPT ![t] = res.r]
        /\ inbox' = Broadcast(t, res.out, inbox)
  /\ lastSent' = NoRequest
  /\ UNCHANGED <<isDesktop, events>>
  /\ FrameLeader

\* the 20 ms timer of triggerLeaderElection
TriggerTimeout(t) ==
  /\ tab[t].triggerTimers > 0
  /\ LET r == [tab[t] EXCEPT !.triggerTimers = @ - 1]
         res == BecomeLeader(r)
     IN /\ Room(t, Len(res.out))
        /\ tab' = [tab EXCEPT ![t] = res.r]
        /\ inbox' = Broadcast(t, res.out, inbox)
  /\ lastSent' = NoRequest
  /\ UNCHANGED <<isDesktop, events>>
  /\ FrameLeader

\* the 80 ms timer of participateInElection
ElectionTimeout(t) ==
  /\ tab[t].electionTimers > 0
  /\ LET r == [tab[t] EXCEPT !.electionTimers = @ - 1]
         res == IF Smallest(r.candidates) = t
                THEN BecomeLeader(r)
                ELSE [r |-> ResignLeadership(r), out |-> <<>>]
     IN /\ Room(t, Len(res.out))
        /\ tab' = [tab EXCEPT ![t] = res.r]
        /\ inbox' = Broadcast(t, res.out, inbox)
  /\ lastSent' = NoRequest
  /\ UNCHANGED <<isDesktop, events>>
  /\ FrameLeader

\* checkLeaderHealth, every 10 s
CheckLeaderHealth(t) ==
  /\ tab[t].phase = "open"
  /\ LET r == tab[t]
         p == ParticipateInElection(r, t)
         res == IF r.isLeader THEN [r |-> r, out |-> <<"leader_beat">>]
                ELSE IF r.lastLeaderBeat = "stale"
                THEN [r |-> p.r, out |-> <<"leader_election">> \o p.out]
                ELSE [r |-> r, out |-> <<>>]
     IN /\ Room(t, Len(res.out))
        /\ tab' = [tab EXCEPT ![t] = res.r]
        /\ inbox' = Broadcast(t, res.out, inbox)
  /\ lastSent' = NoRequest
  /\ UNCHANGED <<isDesktop>>
  /\ Event
  /\ FrameLeader

\* time passes: the last leader beat seen by the tab gets older
Elapse(t) ==
  /\ tab[t].phase = "open"
  /\ tab[t].lastLeaderBeat \in {"fresh", "recent"}
  /\ tab' = [tab EXCEPT ![t].lastLeaderBeat = IF @ = "fresh" THEN "recent" ELSE "stale"]
  /\ lastSent' = NoRequest
  /\ UNCHANGED <<inbox, isDesktop>>
  /\ Event
  /\ FrameLeader

\* ---- visibility ---------------------------------------------------------
\* VisibilityTracker.setState(v): onBecameForeground, then onStateChange, which
\* is ActiveUsersClient.handleVisibilityChange arming its 500 ms timer
SetState(t, v) ==
  /\ tab[t].phase = "open"
  /\ tab[t].visibility # v
  /\ Event
  /\ LET r1 == [tab[t] EXCEPT !.visibility = v]
         r2 == IF v = "foreground" /\ ~isDesktop THEN SendJoin(r1, "foreground") ELSE r1
     IN tab' = [tab EXCEPT ![t] = [r2 EXCEPT !.visibilityTimers = Min(@ + 1, MaxPending)]]
  /\ lastSent' = NoRequest
  /\ UNCHANGED <<inbox, isDesktop>>
  /\ FrameLeader

\* PassiveActiveManager.onVisibilityChange(isForeground)
OnVisibilityChange(r, isForeground) ==
  LET nv == IF isForeground THEN "foreground" ELSE "background"
      r1 == [r EXCEPT !.visibilityState = nv] IN
  IF ~ShouldBeActive(r) \/ r.visibilityState = nv THEN r
  ELSE IF isForeground
  THEN (IF r.currentState = "removed" THEN RejoinToRedis(r1)
        ELSE IF r.currentState = "passive_active" THEN TransitionToActive(r1)
        ELSE [r1 EXCEPT !.foregroundInactivityTimer = TRUE])
  ELSE (IF r.currentState = "active" THEN TransitionToPassiveActive(r1)
        ELSE [r1 EXCEPT !.foregroundInactivityTimer = FALSE])

\* the 500 ms timer of ActiveUsersClient.handleVisibilityChange
VisibilityDebounceTimeout(t) ==
  /\ tab[t].visibilityTimers > 0
  /\ LET r0 == [tab[t] EXCEPT !.visibilityTimers = @ - 1]
         fg == r0.visibility = "foreground"
         r1 == IF isDesktop THEN OnVisibilityChange(r0, fg)
               ELSE [r0 EXCEPT !.mobileCleanupTimer = ~fg]
         trigger == fg /\ ~r1.isLeader
         r2 == IF trigger THEN [r1 EXCEPT !.triggerTimers = Min(@ + 1, MaxPending)] ELSE r1
         out == IF trigger THEN <<"leader_election">> ELSE <<>>
     IN /\ Room(t, Len(out))
        /\ tab' = [tab EXCEPT ![t] = r2]
        /\ inbox' = Broadcast(t, out, inbox)
  /\ lastSent' = NoRequest
  /\ UNCHANGED <<isDesktop, events>>
  /\ FrameLeader

\* the 30 s timer of startMobileCleanupTimer
MobileCleanupTimeout(t) ==
  /\ tab[t].mobileCleanupTimer
  /\ LET r == [tab[t] EXCEPT !.mobileCleanupTimer = FALSE]
     IN tab' = [tab EXCEPT ![t] =
                  IF r.visibility = "background" THEN StopTTLRefresh(r) ELSE r]
  /\ lastSent' = NoRequest
  /\ UNCHANGED <<inbox, isDesktop>>
  /\ Event
  /\ FrameLeader

\* ---- session-mode FSM (PassiveActiveManager) ---------------------------
\* the 5 min foreground inactivity timer
ForegroundInactivityTimeout(t) ==
  /\ tab[t].foregroundInactivityTimer
  /\ tab' = [tab EXCEPT ![t] = TransitionToPassiveActive(@)]
  /\ lastSent' = NoRequest
  /\ UNCHANGED <<inbox, isDesktop>>
  /\ Event
  /\ FrameLeader

\* the 4 min passive inactivity timer: transitionToRemoved, onRemoveFromRedis
PassiveInactivityTimeout(t) ==
  /\ tab[t].passiveInactivityTimer
  /\ tab' = [tab EXCEPT ![t] =
       StopTTLRefresh([@ EXCEPT !.currentState = "removed",
                                !.foregroundInactivityTimer = FALSE,
                                !.passiveInactivityTimer = FALSE])]
  /\ lastSent' = Sent("leave", t, tab[t], "removed")
  /\ UNCHANGED <<inbox, isDesktop>>
  /\ Event
  /\ FrameLeader

\* onUserActivity (mousedown, keydown, touchstart, scroll)
OnUserActivity(t) ==
  /\ tab[t].phase = "open"
  /\ ShouldBeActive(tab[t])
  /\ LET r == tab[t]
         r1 == [r EXCEPT !.visibilityState = "foreground"] IN
     tab' = [tab EXCEPT ![t] =
       IF r.currentState = "removed" THEN RejoinToRedis(r)
       ELSE IF r.currentState = "passive_active" THEN TransitionToActive(r1)
       ELSE [r1 EXCEPT !.foregroundInactivityTimer = TRUE]]
  /\ lastSent' = NoRequest
  /\ UNCHANGED <<inbox, isDesktop>>
  \* activity on a removed tab only rejoins and is not counted as an event
  /\ IF tab[t].currentState = "removed" THEN UNCHANGED events ELSE Event
  /\ FrameLeader

\* ---- requests to the server -------------------------------------------
\* sendJoin() after `await detectDevice`: connection.sendJoin, then the caller
\* continues; the 1 s cooldown timer is armed
JoinDispatch(t) ==
  /\ tab[t].joinStage = "detect"
  /\ lastSent' = Sent("join", t, tab[t], tab[t].joinCaller)
  /\ tab' = [tab EXCEPT ![t] =
       AfterJoin([@ EXCEPT !.joinStage = "cooldown", !.joinCaller = "none"],
                 tab[t].joinCaller)]
  /\ UNCHANGED <<inbox, isDesktop, events>>
  /\ FrameLeader

\* sendJoin() throws before its try block (detectDevice rejects, or
\* session.refreshSession's localStorage.setItem throws): pendingJoin stays
\* set, no cooldown timer is armed and the caller's continuation is skipped
JoinBuildThrows(t) ==
  /\ tab[t].joinStage = "detect"
  /\ tab' = [tab EXCEPT ![t].joinStage = "thrown", ![t].joinCaller = "none"]
  /\ lastSent' = NoRequest
  /\ UNCHANGED <<inbox, isDesktop>>
  /\ Event
  /\ FrameLeader

\* the 1 s joinDebounceTimer
JoinCooldownTimeout(t) ==
  /\ tab[t].joinStage = "cooldown"
  /\ tab' = [tab EXCEPT ![t].joinStage = "idle"]
  /\ lastSent' = NoRequest
  /\ UNCHANGED <<inbox, isDesktop, events>>
  /\ FrameLeader

\* a tick of ttlRefreshTimer; websocket: connection.getMode() === 'websocket'
TTLRefreshTick(t, websocket) ==
  /\ tab[t].ttlRefreshTimer
  /\ lastSent' = IF websocket THEN Sent("ttl_refresh", t, tab[t], "timer") ELSE NoRequest
  /\ UNCHANGED <<tab, inbox, isDesktop>>
  /\ Event
  /\ FrameLeader

(***************************************************************************)
(*                         SERVER PRESENCE STORE                           *)
(* One presence key.  Every handler is async: it runs up to its next       *)
(* await on a Redis command, and the commands of handlers in progress      *)
(* reach Redis in any order.  Remaining TTLs and the age of updatedAt are  *)
(* kept in seconds, in steps of Quantum: a stored ttl of n stands for a    *)
(* remaining life in (n - Quantum, n].  A Redis round trip is far shorter  *)
(* than Quantum, so the clock advances only while no command is            *)
(* outstanding; a key in its last Quantum may expire at any moment.        *)
(***************************************************************************)
\* server/config.ts presenceTTL, handed to the RedisAdapter constructor
presenceTTL == 600
\* getSessionBasedTTL: 5 * 60 for passive_active
PassiveTTL == 300
\* runStaleSessionCleanup staleThreshold (15 * 60 * 1000 ms), in seconds
StaleThreshold == 900
\* the disconnect resolver keeps a key whose TTL is above this
ResolverFloor == 15

\* redis.ttl() answers -2 for a missing key and -1 for a key with no expiry
NoKey ==
  [present |-> FALSE, session_mode |-> "active", total_tab_quantity |-> <<>>,
   age |-> 0, ttl |-> -2]

\* redis.set(key, value): writes the value and drops any expiry the key had;
\* the value is stamped updatedAt = now
RedisSet(m, q) ==
  [present |-> TRUE, session_mode |-> m, total_tab_quantity |-> q, age |-> 0, ttl |-> -1]

\* redis.expire(key, n): no effect on a missing key
RedisExpire(k, n) == IF k.present THEN [k EXCEPT !.ttl = n] ELSE k

\* RedisAdapter.getKeyTTL / redis.ttl(key)
GetKeyTTL(k) == k.ttl

\* RedisAdapter.getSessionBasedTTL
GetSessionBasedTTL(m) == IF m = "passive_active" THEN PassiveTTL ELSE presenceTTL

\* PresenceService.cancelDisconnectTimer: clears the registered timer, if any
CancelDisconnectTimer(d) == IF d = "timer" THEN "idle" ELSE d

\* timeSinceUpdate > staleThreshold
IsStale(k) == k.age > StaleThreshold

\* payload: the total_tab_quantity of the payload; total_tab_quantity: that of
\* presenceData
IdleJoin ==
  [pc |-> "idle", session_mode |-> "active", payload |-> <<>>, total_tab_quantity |-> <<>>]
IdleRefresh ==
  [pc |-> "idle", session_mode |-> "none", total_tab_quantity |-> <<>>,
   currentTTL |-> 0, ttl |-> 0]

\* handlers with a Redis command outstanding
InFlight ==
  (IF join.pc # "idle" THEN 1 ELSE 0) + (IF refresh.pc # "idle" THEN 1 ELSE 0)
  + (IF leave # "idle" THEN 1 ELSE 0) + (IF auth # "idle" THEN 1 ELSE 0)
  + (IF sweeper # "idle" THEN 1 ELSE 0)
  + (IF disconnect \in {"ttl", "del"} THEN 1 ELSE 0)

MayStart == InFlight < MaxInFlight

FrameStore ==
  UNCHANGED <<varsUnload, varsLeader, varsSession, varsConnection, varsMetrics, varsRegistry,
              varsBeat>>

Out(c, r) == completed' = c /\ removedBy' = r

\* ---- POST /presence/join -> PresenceService.handleJoin -----------------
\* a field the payload omits (undefined) takes the value of the record read
\* by getPresence, if there is one; total_tab_quantity stands for the device
\* and tab-count fields, which are all merged this way
MergeField(payload, existing) ==
  IF payload # <<>> THEN payload
  ELSE IF existing.present THEN existing.total_tab_quantity ELSE <<>>

\* up to setPresence's redis.set: cancelDisconnectTimer, then getPresence;
\* all JOINs of one session report the same device
HandleJoin(m, device, total_tab_quantity) ==
  /\ join.pc = "idle"
  /\ MayStart
  /\ sessionDevice \in {"unset", device}
  /\ sessionDevice' = device
  /\ join' = [pc |-> "set", session_mode |-> m, payload |-> total_tab_quantity,
              total_tab_quantity |-> MergeField(total_tab_quantity, redis)]
  /\ disconnect' = CancelDisconnectTimer(disconnect)
  /\ Out("none", "none")
  /\ rejoin' = IF disconnect \in {"grace", "timer"} THEN "started" ELSE rejoin
  /\ UNCHANGED <<redis, refresh, leave, auth, ws, clientInfo, sweeper>>
  /\ FrameStore

\* setPresence: await redis.set(key, value)
SetPresenceSet ==
  /\ join.pc = "set"
  /\ redis' = RedisSet(join.session_mode, join.total_tab_quantity)
  /\ join' = [join EXCEPT !.pc = "expire"]
  /\ Out("none", "none")
  /\ UNCHANGED <<refresh, leave, auth, ws, clientInfo, disconnect, sweeper, sessionDevice, rejoin>>
  /\ FrameStore

\* setPresence: await redis.expire(key, ttl), ttl computed from the payload
SetPresenceExpire ==
  /\ join.pc = "expire"
  /\ redis' = RedisExpire(redis, GetSessionBasedTTL(join.session_mode))
  /\ join' = IdleJoin
  /\ rejoin' = IF rejoin = "started" THEN "processed" ELSE rejoin
  /\ Out("join", "none")
  /\ UNCHANGED <<refresh, leave, auth, ws, clientInfo, disconnect, sweeper, sessionDevice>>
  /\ FrameStore

\* ---- ws 'ttl_refresh' -> PresenceService.refreshTTL ---------------------
\* accepted only on a socket whose customerId is set; with a session_mode in
\* the payload, getPresence decides whether updatePresence runs first
RefreshTTL(m) ==
  /\ ws = "open"
  /\ refresh.pc = "idle"
  /\ MayStart
  /\ refresh' = [IdleRefresh EXCEPT
                   !.session_mode = m,
                   !.total_tab_quantity =
                      IF m # "none" /\ redis.present /\ redis.session_mode # m
                      THEN redis.total_tab_quantity ELSE <<>>,
                   !.pc = IF m # "none" /\ redis.present /\ redis.session_mode # m
                          THEN "u_ttl" ELSE "exists"]
  /\ Out("none", "none")
  /\ UNCHANGED <<redis, join, leave, auth, ws, clientInfo, disconnect, sweeper, sessionDevice, rejoin>>
  /\ FrameStore

\* updatePresence: currentTTL = await redis.ttl(key)
UpdatePresenceTtl ==
  /\ refresh.pc = "u_ttl"
  /\ refresh' = [refresh EXCEPT !.pc = "u_set", !.currentTTL = GetKeyTTL(redis)]
  /\ Out("none", "none")
  /\ UNCHANGED <<redis, join, leave, auth, ws, clientInfo, disconnect, sweeper, sessionDevice, rejoin>>
  /\ FrameStore

\* updatePresence: await redis.set(key, value)
UpdatePresenceSet ==
  /\ refresh.pc = "u_set"
  /\ redis' = RedisSet(refresh.session_mode, refresh.total_tab_quantity)
  /\ refresh' = [refresh EXCEPT !.pc = IF refresh.currentTTL > 0 THEN "u_expire" ELSE "exists"]
  /\ Out("none", "none")
  /\ UNCHANGED <<join, leave, auth, ws, clientInfo, disconnect, sweeper, sessionDevice, rejoin>>
  /\ FrameStore

\* updatePresence: if (currentTTL > 0) await redis.expire(key, currentTTL)
UpdatePresenceExpire ==
  /\ refresh.pc = "u_expire"
  /\ redis' = RedisExpire(redis, refresh.currentTTL)
  /\ refresh' = [refresh EXCEPT !.pc = "exists"]
  /\ Out("none", "none")
  /\ UNCHANGED <<join, leave, auth, ws, clientInfo, disconnect, sweeper, sessionDevice, rejoin>>
  /\ FrameStore

\* RedisAdapter.refreshTTL: exists = await redis.exists(key)
RefreshTTLExists ==
  /\ refresh.pc = "exists"
  /\ refresh' = IF redis.present THEN [refresh EXCEPT !.pc = "r_get"] ELSE IdleRefresh
  /\ Out(IF redis.present THEN "none" ELSE "ttl_refresh", "none")
  /\ UNCHANGED <<redis, join, leave, auth, ws, clientInfo, disconnect, sweeper, sessionDevice, rejoin>>
  /\ FrameStore

\* RedisAdapter.refreshTTL: presenceData = await getPresence(), ttl chosen
RefreshTTLGet ==
  /\ refresh.pc = "r_get"
  /\ refresh' = [refresh EXCEPT
                   !.pc = "r_expire",
                   !.ttl = IF redis.present THEN GetSessionBasedTTL(redis.session_mode)
                           ELSE presenceTTL]
  /\ Out("none", "none")
  /\ UNCHANGED <<redis, join, leave, auth, ws, clientInfo, disconnect, sweeper, sessionDevice, rejoin>>
  /\ FrameStore

\* RedisAdapter.refreshTTL: await redis.expire(key, ttl)
RefreshTTLExpire ==
  /\ refresh.pc = "r_expire"
  /\ redis' = RedisExpire(redis, refresh.ttl)
  /\ refresh' = IdleRefresh
  /\ Out("ttl_refresh", "none")
  /\ UNCHANGED <<join, leave, auth, ws, clientInfo, disconnect, sweeper, sessionDevice, rejoin>>
  /\ FrameStore

\* ---- POST /presence/leave -> PresenceService.handleLeave ----------------
\* hasPresence: returns false when the key is missing (the route then writes
\* a LEAVE_TOMBSTONE key, which nothing reads); payload.mode is only logged
HandleLeave(mode) ==
  /\ leave = "idle"
  /\ MayStart
  /\ leave' = IF redis.present THEN mode ELSE "idle"
  /\ Out("none", "none")
  /\ UNCHANGED <<redis, join, refresh, auth, ws, clientInfo, disconnect, sweeper, sessionDevice, rejoin>>
  /\ FrameStore

\* handleLeave: await this.redis.removePresence()
HandleLeaveRemove ==
  /\ leave # "idle"
  /\ redis' = NoKey
  /\ leave' = "idle"
  /\ Out("none", IF redis.present THEN "leave" ELSE "none")
  /\ UNCHANGED <<join, refresh, auth, ws, clientInfo, disconnect, sweeper, sessionDevice, rejoin>>
  /\ FrameStore

\* ---- WebSocket connection ----------------------------------------------
\* 'auth' message up to its await: customerId is set, getPresence is issued
WsAuth ==
  /\ ws = "none"
  /\ auth = "idle"
  /\ MayStart
  /\ ws' = "open"
  /\ auth' = "get"
  /\ Out("none", "none")
  /\ UNCHANGED <<redis, join, refresh, leave, clientInfo, disconnect, sweeper, sessionDevice, rejoin>>
  /\ FrameStore

\* 'auth' message after getPresence: clientInfo stored, pending timer cancelled
WsAuthGotPresence ==
  /\ auth = "get"
  /\ auth' = "idle"
  /\ clientInfo' = IF ws # "open" THEN clientInfo
                   ELSE IF redis.present THEN sessionDevice ELSE "unknown"
  /\ disconnect' = CancelDisconnectTimer(disconnect)
  /\ Out("none", "none")
  /\ UNCHANGED <<redis, join, refresh, leave, ws, sweeper, sessionDevice, rejoin>>
  /\ FrameStore

\* ws.on('close') and handleWebSocketDisconnect up to its 500 ms grace await;
\* one disconnect resolution at a time
WsClose ==
  /\ ws = "open"
  /\ clientInfo \in {"mobile", "unknown"} => disconnect = "idle"
  /\ ws' = "none"
  /\ clientInfo' = "unset"
  /\ disconnect' = IF clientInfo \in {"mobile", "unknown"} THEN "grace" ELSE disconnect
  /\ rejoin' = IF clientInfo \in {"mobile", "unknown"} THEN "none" ELSE rejoin
  /\ Out("none", "none")
  /\ UNCHANGED <<redis, join, refresh, leave, auth, sweeper, sessionDevice>>
  /\ FrameStore

\* handleWebSocketDisconnect after the grace: setTimeout(10000), setDisconnectTimer
GraceElapsed ==
  /\ disconnect = "grace"
  /\ disconnect' = "timer"
  /\ Out("none", "none")
  /\ UNCHANGED <<redis, join, refresh, leave, auth, ws, clientInfo, sweeper, sessionDevice, rejoin>>
  /\ FrameStore

\* the 10 s timer fires: the map entry is dropped, getKeyTTL is issued
DisconnectTimeout ==
  /\ disconnect = "timer"
  /\ MayStart
  /\ disconnect' = "ttl"
  /\ rejoin' = IF rejoin = "started" THEN "none" ELSE rejoin
  /\ Out("none", "none")
  /\ UNCHANGED <<redis, join, refresh, leave, auth, ws, clientInfo, sweeper, sessionDevice>>
  /\ FrameStore

\* the answers `keyTTL > 15` can have for a key whose stored ttl is t
AboveFloor(t) ==
  {b \in BOOLEAN : (b /\ t > ResolverFloor) \/ (~b /\ t - Quantum < ResolverFloor)}

\* the timer callback after getKeyTTL: -2 or above 15 ends it, else remove
DisconnectGotTTL ==
  /\ disconnect = "ttl"
  /\ \E above \in AboveFloor(GetKeyTTL(redis)) :
       disconnect' = IF GetKeyTTL(redis) = -2 \/ above THEN "idle" ELSE "del"
  /\ Out("none", "none")
  /\ UNCHANGED <<redis, join, refresh, leave, auth, ws, clientInfo, sweeper, sessionDevice, rejoin>>
  /\ FrameStore

\* the timer callback: await this.presence.removePresence()
DisconnectRemove ==
  /\ disconnect = "del"
  /\ redis' = NoKey
  /\ disconnect' = "idle"
  /\ Out("none", IF redis.present THEN "resolver" ELSE "none")
  /\ UNCHANGED <<join, refresh, leave, auth, ws, clientInfo, sweeper, sessionDevice, rejoin>>
  /\ FrameStore

\* ---- stale-session job (startStaleSessionCleanup, every 5 minutes) ------
\* runStaleSessionCleanup: getAllPresenceKeys; nothing to do without keys
RunStaleSessionCleanup ==
  /\ sweeper = "idle"
  /\ MayStart
  /\ sweeper' = IF redis.present THEN "get" ELSE "idle"
  /\ Out("none", "none")
  /\ UNCHANGED <<redis, join, refresh, leave, auth, ws, clientInfo, disconnect, sessionDevice, rejoin>>
  /\ FrameStore

\* runStaleSessionCleanup: getPresence, then the staleness test on updatedAt
StaleCleanupGotPresence ==
  /\ sweeper = "get"
  /\ sweeper' = IF redis.present /\ IsStale(redis) THEN "del" ELSE "idle"
  /\ Out("none", "none")
  /\ UNCHANGED <<redis, join, refresh, leave, auth, ws, clientInfo, disconnect, sessionDevice, rejoin>>
  /\ FrameStore

\* runStaleSessionCleanup: await this.redis.removePresence()
StaleCleanupRemove ==
  /\ sweeper = "del"
  /\ redis' = NoKey
  /\ sweeper' = "idle"
  /\ Out("none", IF redis.present THEN "sweeper" ELSE "none")
  /\ UNCHANGED <<join, refresh, leave, auth, ws, clientInfo, disconnect, sessionDevice, rejoin>>
  /\ FrameStore

\* ---- time ------------------------------------------------------------
\* Quantum seconds pass: the key's expiry counts down (Redis deletes the key
\* when it runs out) and updatedAt grows older
Advance ==
  /\ InFlight = 0
  /\ redis.present
  /\ LET expires == redis.ttl > 0 /\ redis.ttl - Quantum <= 0
     IN /\ redis' = IF expires THEN NoKey
                    ELSE [redis EXCEPT
                            !.ttl = IF redis.ttl > 0 THEN redis.ttl - Quantum ELSE redis.ttl,
                            !.age = IF IsStale(redis) THEN redis.age ELSE redis.age + Quantum]
        /\ Out("none", IF expires THEN "expiry" ELSE "none")
  /\ UNCHANGED <<join, refresh, leave, auth, ws, clientInfo, disconnect, sweeper, sessionDevice, rejoin>>
  /\ FrameStore

\* a key in its last Quantum runs out, possibly between two commands of a handler
KeyExpires ==
  /\ redis.present
  /\ redis.ttl > 0
  /\ redis.ttl <= Quantum
  /\ redis' = NoKey
  /\ Out("none", "expiry")
  /\ UNCHANGED <<join, refresh, leave, auth, ws, clientInfo, disconnect, sweeper, sessionDevice, rejoin>>
  /\ FrameStore

\* ---- legacy BEAT -> PresenceService.handleBeat --------------------------
IdleBeat ==
  [pc |-> "idle", session_mode |-> "active", total_tab_quantity |-> <<>>, currentTTL |-> 0]

FrameBeat ==
  /\ UNCHANGED <<join, refresh, leave, auth, ws, clientInfo, disconnect, sweeper,
                 sessionDevice, rejoin, liveness>>
  /\ UNCHANGED <<varsUnload, varsLeader, varsSession, varsConnection, varsMetrics,
                 varsRegistry>>

\* handleBeat up to its first write: existing = await getPresence; an existing
\* record is rewritten by updatePresence ({...existing}), a missing one is
\* created in mode active by setPresence
HandleBeat ==
  /\ beat.pc = "idle"
  /\ beat' = IF redis.present
             THEN [pc |-> "u_ttl", session_mode |-> redis.session_mode,
                   total_tab_quantity |-> redis.total_tab_quantity, currentTTL |-> 0]
             ELSE [IdleBeat EXCEPT !.pc = "set"]
  /\ Out("none", "none")
  /\ UNCHANGED redis
  /\ FrameBeat

\* updatePresence: getPresence (for createdAt), then currentTTL = await redis.ttl(key)
BeatUpdateTtl ==
  /\ beat.pc = "u_ttl"
  /\ beat' = [beat EXCEPT !.pc = "u_set", !.currentTTL = GetKeyTTL(redis)]
  /\ Out("none", "none")
  /\ UNCHANGED redis
  /\ FrameBeat

\* updatePresence: await redis.set(key, value); the expire follows only if
\* currentTTL > 0
BeatUpdateSet ==
  /\ beat.pc = "u_set"
  /\ redis' = RedisSet(beat.session_mode, beat.total_tab_quantity)
  /\ beat' = IF beat.currentTTL > 0 THEN [beat EXCEPT !.pc = "u_expire"] ELSE IdleBeat
  /\ Out(IF beat.currentTTL > 0 THEN "none" ELSE "beat", "none")
  /\ FrameBeat

\* updatePresence: await redis.expire(key, currentTTL)
BeatUpdateExpire ==
  /\ beat.pc = "u_expire"
  /\ redis' = RedisExpire(redis, beat.currentTTL)
  /\ beat' = IdleBeat
  /\ Out("beat", "none")
  /\ FrameBeat

\* the fallback branch, setPresence: await redis.set(key, value)
BeatSetPresenceSet ==
  /\ beat.pc = "set"
  /\ redis' = RedisSet(beat.session_mode, beat.total_tab_quantity)
  /\ beat' = [beat EXCEPT !.pc = "expire"]
  /\ Out("none", "none")
  /\ FrameBeat

\* setPresence: await redis.expire(key, ttl)
BeatSetPresenceExpire ==
  /\ beat.pc = "expire"
  /\ redis' = RedisExpire(redis, GetSessionBasedTTL(beat.session_mode))
  /\ beat' = IdleBeat
  /\ Out("beat", "none")
  /\ FrameBeat

\* ---- WebSocketServer: ping / pong liveness of one connection -----------
\* setInterval(..., 25000) sending ws.ping()
PingIntervalMs == 25000

\* setInterval(..., 30000) counting missed pongs
PongCheckIntervalMs == 30000

FramePing ==
  /\ UNCHANGED <<varsUnload, varsLeader, varsStore, varsSession, varsConnection, varsMetrics,
                 varsRegistry>>
  /\ UNCHANGED beat

\* time passes on the server while no interval of the connection is due
PingAdvance ==
  /\ liveness.readyState = "open"
  /\ liveness.now + PingQuantum <= MaxPingClock
  /\ liveness.now < liveness.pingInterval
  /\ liveness.now < liveness.pongCheckInterval
  /\ liveness' = [liveness EXCEPT !.now = @ + PingQuantum]
  /\ FramePing

\* the pingInterval callback: ws.ping() on an open socket
PingIntervalTick ==
  /\ liveness.readyState = "open"
  /\ liveness.now >= liveness.pingInterval
  /\ liveness' = [liveness EXCEPT !.pingInterval = @ + PingIntervalMs,
                                  !.unanswered = @ + 1]
  /\ FramePing

\* ws.on('pong'): the client answers the pings it has received
OnPong ==
  /\ liveness.readyState = "open"
  /\ liveness.unanswered > 0
  /\ liveness' = [liveness EXCEPT !.missedPongCount = 0, !.unanswered = 0]
  /\ FramePing

\* the pongCheckInterval callback: missedPongCount++, and at 2 both intervals
\* are cleared and the socket is closed
PongCheckIntervalTick ==
  /\ liveness.readyState = "open"
  /\ liveness.now >= liveness.pongCheckInterval
  /\ liveness' = [liveness EXCEPT
                    !.missedPongCount = @ + 1,
                    !.pongCheckInterval = @ + PongCheckIntervalMs,
                    !.readyState = IF liveness.missedPongCount + 1 >= 2 THEN "closed"
                                   ELSE "open"]
  /\ FramePing

\* wss.on('connection'): the handler's closure; unanswered counts the pings
\* sent since the last pong (history)
InitPing ==
  liveness = [readyState |-> "open", missedPongCount |-> 0, unanswered |-> 0, now |-> 0,
              pingInterval |-> PingIntervalMs, pongCheckInterval |-> PongCheckIntervalMs]

NextPing ==
  \/ PingAdvance
  \/ PingIntervalTick
  \/ OnPong
  \/ PongCheckIntervalTick

InitBeat == beat = IdleBeat

\* JOIN, BEAT and key expiry on one presence key
NextBeat ==
  \/ \E m \in {"active", "passive_active"}, d \in {"desktop", "mobile"},
        q \in {<<>>} \cup {<<n>> : n \in 1..MaxTabs} : HandleJoin(m, d, q)
  \/ SetPresenceSet
  \/ SetPresenceExpire
  \/ HandleBeat
  \/ BeatUpdateTtl
  \/ BeatUpdateSet
  \/ BeatUpdateExpire
  \/ BeatSetPresenceSet
  \/ BeatSetPresenceExpire
  \/ Advance
  \/ KeyExpires

InitStore ==
  /\ redis = NoKey
  /\ join = IdleJoin
  /\ refresh = IdleRefresh
  /\ leave = "idle"
  /\ auth = "idle"
  /\ ws = "none"
  /\ clientInfo = "unset"
  /\ disconnect = "idle"
  /\ sweeper = "idle"
  /\ sessionDevice = "unset"
  /\ rejoin = "none"
  /\ completed = "none"
  /\ removedBy = "none"

NextStore ==
  \/ \E m \in {"active", "passive_active"}, d \in {"desktop", "mobile"},
        q \in {<<>>} \cup {<<n>> : n \in 1..MaxTabs} : HandleJoin(m, d, q)
  \/ SetPresenceSet
  \/ SetPresenceExpire
  \/ \E m \in {"none", "active", "passive_active"} : RefreshTTL(m)
  \/ UpdatePresenceTtl
  \/ UpdatePresenceSet
  \/ UpdatePresenceExpire
  \/ RefreshTTLExists
  \/ RefreshTTLGet
  \/ RefreshTTLExpire
  \/ \E mode \in {"final", "pending"} : HandleLeave(mode)
  \/ HandleLeaveRemove
  \/ WsAuth
  \/ WsAuthGotPresence
  \/ WsClose
  \/ GraceElapsed
  \/ DisconnectTimeout
  \/ DisconnectGotTTL
  \/ DisconnectRemove
  \/ RunStaleSessionCleanup
  \/ StaleCleanupGotPresence
  \/ StaleCleanupRemove
  \/ Advance
  \/ KeyExpires

(***************************************************************************)
(* SessionState (client session identity).  Every tab of the customer runs  *)
(* the constructor on load; the tabs share one localStorage and nothing     *)
(* orders one tab's storage accesses against another's, so the constructor  *)
(* steps per storage access.                                                *)
(***************************************************************************)
SESSION_TIMEOUT == 24

NoItem == <<>>

\* generateId('sess'): `sess_${Date.now()}_${Math.random()}`
GenerateId(random) == <<clock, random>>

\* a stored timestamp is the one-element sequence of its value
\* isExpired: timestamp && (Date.now() - parseInt(timestamp)) > SESSION_TIMEOUT
IsExpired(timestamp) == timestamp # NoItem /\ clock - timestamp[1] > SESSION_TIMEOUT

NoSessionState == [pc |-> "none", sessionId |-> NoItem, read |-> NoItem, createdAt |-> 0]

FrameSession ==
  UNCHANGED <<varsUnload, varsLeader, varsStore, varsConnection, varsMetrics, varsRegistry,
              varsBeat>>

\* new SessionState(customerId) up to localStorage.getItem(storageKey)
NewSessionState(t) ==
  /\ sessionState[t].pc = "none"
  /\ sessionState' = [sessionState EXCEPT ![t] =
       [pc |-> "gotSession", sessionId |-> NoItem, read |-> localStorage.session,
        createdAt |-> clock]]
  /\ UNCHANGED <<localStorage, clock>>
  /\ FrameSession

\* localStorage.getItem(timestampKey), the expiry test and generateId
GetOrCreateSessionId(t, random) ==
  /\ sessionState[t].pc = "gotSession"
  /\ sessionState' = [sessionState EXCEPT ![t] =
       IF sessionState[t].read = NoItem \/ IsExpired(localStorage.timestamp)
       THEN [@ EXCEPT !.pc = "setSession", !.sessionId = GenerateId(random)]
       ELSE [@ EXCEPT !.pc = "done", !.sessionId = sessionState[t].read]]
  /\ UNCHANGED <<localStorage, clock>>
  /\ FrameSession

\* localStorage.setItem(storageKey, sessionId)
SetSessionItem(t) ==
  /\ sessionState[t].pc = "setSession"
  /\ localStorage' = [localStorage EXCEPT !.session = sessionState[t].sessionId]
  /\ sessionState' = [sessionState EXCEPT ![t].pc = "setTimestamp"]
  /\ UNCHANGED clock
  /\ FrameSession

\* localStorage.setItem(timestampKey, Date.now())
SetTimestampItem(t) ==
  /\ sessionState[t].pc = "setTimestamp"
  /\ localStorage' = [localStorage EXCEPT !.timestamp = <<clock>>]
  /\ sessionState' = [sessionState EXCEPT ![t].pc = "done"]
  /\ UNCHANGED clock
  /\ FrameSession

\* refreshSession(), called by sendJoin after a JOIN was sent
RefreshSession(t) ==
  /\ sessionState[t].pc = "done"
  /\ localStorage' = [localStorage EXCEPT !.timestamp = <<clock>>]
  /\ UNCHANGED <<sessionState, clock>>
  /\ FrameSession

\* the tab is closed or reloaded: its SessionState object is gone
DropSessionState(t) ==
  /\ sessionState[t].pc = "done"
  /\ sessionState' = [sessionState EXCEPT ![t] = NoSessionState]
  /\ UNCHANGED <<localStorage, clock>>
  /\ FrameSession

\* time passes
Tick ==
  /\ clock + ClockStep <= MaxClock
  /\ clock' = clock + ClockStep
  /\ UNCHANGED <<localStorage, sessionState>>
  /\ FrameSession

InitSession ==
  /\ localStorage = [session |-> NoItem, timestamp |-> NoItem]
  /\ sessionState = [t \in Tabs |-> NoSessionState]
  /\ clock = 0

NextSession ==
  \/ \E t \in Tabs : NewSessionState(t)
  \/ \E t \in Tabs, random \in 1..MaxRandom : GetOrCreateSessionId(t, random)
  \/ \E t \in Tabs : SetSessionItem(t)
  \/ \E t \in Tabs : SetTimestampItem(t)
  \/ \E t \in Tabs : RefreshSession(t)
  \/ \E t \in Tabs : DropSessionState(t)
  \/ Tick

(***************************************************************************)
(* HybridConnectionManager (client transport selection) with PollingClient  *)
(* and WebSocketClient, for one tab that is leader.  Failed fetches are     *)
(* left out.  The client's visibility handler runs 500 ms after a tracker   *)
(* change, so its calls of updateAppState are taken one debounce apart.     *)
(***************************************************************************)
pollingInterval == 45000

pollingIntervalPassive == 5400000

\* PollingClient.pollingInterval before the first start()
DefaultPollingInterval == 30000

\* the three objects after a call, with what the call sent
Objects(c, p, w, out) == [c |-> c, p |-> p, w |-> w, out |-> out]

\* PollingClient.stop()
PollingStop(p) ==
  IF p.interval # 0 THEN [p EXCEPT !.interval = 0, !.isActive = FALSE] ELSE p

\* PollingClient.start(intervalMs, onMetrics): fetches at once, then every intervalMs
PollingStart(p, intervalMs) ==
  [PollingStop([p EXCEPT !.pollingInterval = intervalMs, !.onMetrics = TRUE,
                         !.isActive = TRUE])
     EXCEPT !.interval = intervalMs]

\* PollingClient.updateInterval(intervalMs): [p, whether start() ran]
UpdateInterval(p, intervalMs) ==
  LET p1 == [p EXCEPT !.pollingInterval = intervalMs] IN
  IF p1.isActive /\ p1.onMetrics
  THEN [p |-> PollingStart(p1, intervalMs), started |-> TRUE]
  ELSE [p |-> p1, started |-> FALSE]

RECURSIVE Power(_, _)
Power(b, n) == IF n = 0 THEN 1 ELSE b * Power(b, n - 1)

\* WebSocketClient.maxReconnectAttempts
maxReconnectAttempts == 5

\* Math.min(1000 * Math.pow(2, reconnectAttempts), 30000)
ReconnectDelay(reconnectAttempts) == Min(1000 * Power(2, reconnectAttempts), 30000)

\* WebSocketClient.scheduleReconnect(); reconnectTimeout holds the delay of the
\* pending timer, 0 if none is pending
ScheduleReconnect(w) ==
  IF w.reconnectAttempts >= maxReconnectAttempts THEN w
  ELSE [w EXCEPT !.reconnectAttempts = @ + 1,
                 !.reconnectTimeout = ReconnectDelay(w.reconnectAttempts + 1)]

\* WebSocketClient.createConnection(): new WebSocket(url) throws on a url it
\* cannot use, and the catch schedules a reconnect
CreateConnection(w) ==
  IF w.url = "valid" THEN [w EXCEPT !.ws = "connecting"]
  ELSE ScheduleReconnect(w)

\* WebSocketClient.connect()
WsConnect(w) == CreateConnection([w EXCEPT !.isIntentionallyClosed = FALSE])

\* WebSocketClient.disconnect()
WsDisconnect(w) ==
  [w EXCEPT !.ws = "none", !.isIntentionallyClosed = TRUE, !.reconnectTimeout = 0]

SwitchToWebSocket(s) ==
  IF s.c.currentMode = "websocket" THEN s
  ELSE Objects([s.c EXCEPT !.currentMode = "websocket"],
               IF s.c.currentMode = "polling" THEN PollingStop(s.p) ELSE s.p,
               WsConnect(s.w), s.out)

SwitchToPolling(s, interval) ==
  IF s.c.currentMode = "polling"
  THEN LET u == UpdateInterval(s.p, interval) IN
       Objects(s.c, u.p, s.w, IF u.started THEN "metrics" ELSE s.out)
  ELSE Objects([s.c EXCEPT !.currentMode = "polling",
                           !.switchTimers = Append(@, interval)],
               s.p,
               IF s.c.currentMode = "websocket" THEN WsDisconnect(s.w) ELSE s.w,
               s.out)

SelectOptimalConnection(s) ==
  IF s.c.sessionMode = "passive_active" THEN SwitchToPolling(s, pollingIntervalPassive)
  ELSE IF s.c.sessionMode = "active" /\ s.c.appState = "foreground"
  THEN SwitchToWebSocket(s)
  ELSE SwitchToPolling(s, pollingInterval)

Current == Objects(connection, pollingClient, wsClient, "none")

Becomes(s) ==
  /\ connection' = s.c
  /\ pollingClient' = s.p
  /\ wsClient' = s.w
  /\ request' = s.out

FrameConnection ==
  UNCHANGED <<varsUnload, varsLeader, varsStore, varsSession, varsMetrics, varsRegistry,
              varsBeat>>

\* HybridConnectionManager.start(appState, ...), called by init(); url: whether
\* new WebSocket() accepts the wsUrl the manager was constructed with
ConnectionStart(appState, url) ==
  /\ ~connection.started
  /\ visible = appState
  /\ Becomes(SelectOptimalConnection(
       [Current EXCEPT !.c.started = TRUE, !.c.appState = appState, !.w.url = url]))
  /\ UNCHANGED visible
  /\ FrameConnection

\* the visibility tracker changes state before the connection is started
VisibilityBeforeStart(v) ==
  /\ ~connection.started
  /\ visible # v
  /\ visible' = v
  /\ UNCHANGED <<connection, pollingClient, wsClient, request>>
  /\ FrameConnection

\* updateAppState(newState), called by the client's 500 ms visibility handler
UpdateAppState(newState) ==
  /\ connection.started
  /\ ~connection.stopped
  /\ connection.appStateTimeout = "none"
  /\ Len(connection.switchTimers) < MaxSwitchTimers
  /\ visible' = newState
  /\ connection' =
       IF connection.appState = newState \/ connection.lastAppStateChange = "recent"
       THEN connection
       ELSE [connection EXCEPT !.appStateTimeout = newState]
  /\ request' = "none"
  /\ UNCHANGED <<pollingClient, wsClient>>
  /\ FrameConnection

\* the 500 ms appStateTimeout
AppStateTimeout ==
  /\ connection.appStateTimeout # "none"
  /\ Becomes(SelectOptimalConnection(
       [Current EXCEPT !.c.appState = connection.appStateTimeout,
                       !.c.appStateTimeout = "none",
                       !.c.lastAppStateChange = "recent"]))
  /\ UNCHANGED visible
  /\ FrameConnection

\* updateSessionMode(newMode)
UpdateSessionMode(newMode) ==
  /\ connection.started
  /\ ~connection.stopped
  /\ Len(connection.switchTimers) < MaxSwitchTimers
  /\ Becomes(IF connection.sessionMode = newMode THEN Current
             ELSE SelectOptimalConnection([Current EXCEPT !.c.sessionMode = newMode]))
  /\ UNCHANGED visible
  /\ FrameConnection

\* the 100 ms timer of switchToPolling: pollingClient.start(interval, ...)
PollingStartTimeout ==
  /\ connection.switchTimers # <<>>
  /\ connection' = [connection EXCEPT !.switchTimers = Tail(@)]
  /\ pollingClient' = PollingStart(pollingClient, Head(connection.switchTimers))
  /\ request' = "metrics"
  /\ UNCHANGED <<wsClient, visible>>
  /\ FrameConnection

\* ws.onopen: reconnectAttempts = 0, handleWebSocketStateChange(true) sends auth
WsOpen ==
  /\ wsClient.ws = "connecting"
  /\ wsClient' = [wsClient EXCEPT !.ws = "open", !.reconnectAttempts = 0]
  /\ request' = "auth"
  /\ UNCHANGED <<connection, pollingClient, visible>>
  /\ FrameConnection

\* ws.onclose on a socket the client did not close (network, server):
\* handleWebSocketStateChange(false), which in mode websocket falls back with
\* switchToPolling(), then scheduleReconnect unless isIntentionallyClosed
WsOnClose ==
  /\ wsClient.ws \in {"connecting", "open"}
  /\ Len(connection.switchTimers) < MaxSwitchTimers
  /\ LET s0 == [Current EXCEPT !.w.ws = "closed"]
         s1 == IF connection.currentMode = "websocket"
               THEN SwitchToPolling(s0, pollingInterval) ELSE s0
     IN Becomes([s1 EXCEPT !.w = IF ~s1.w.isIntentionallyClosed
                                 THEN ScheduleReconnect(s1.w) ELSE s1.w])
  /\ UNCHANGED visible
  /\ FrameConnection

\* the reconnectTimeout timer: createConnection()
ReconnectTimeout ==
  /\ wsClient.reconnectTimeout # 0
  /\ wsClient' = CreateConnection([wsClient EXCEPT !.reconnectTimeout = 0])
  /\ request' = "none"
  /\ UNCHANGED <<connection, pollingClient, visible>>
  /\ FrameConnection

\* HybridConnectionManager.stop(), called by destroy()
ConnectionStop ==
  /\ connection.started
  /\ ~connection.stopped
  /\ connection' = [connection EXCEPT !.currentMode = "none", !.stopped = TRUE]
  /\ wsClient' = WsDisconnect(wsClient)
  /\ pollingClient' = PollingStop(pollingClient)
  /\ request' = "none"
  /\ UNCHANGED visible
  /\ FrameConnection

\* a tick of PollingClient's setInterval: fetchMetrics, GET /active-users/metrics
PollingTick ==
  /\ pollingClient.interval # 0
  /\ request' = IF pollingClient.onMetrics THEN "metrics" ELSE "none"
  /\ UNCHANGED <<connection, pollingClient, wsClient, visible>>
  /\ FrameConnection

\* a tick of the leader's ttlRefreshTimer (startTTLRefresh), then sendTTLRefresh
RefreshTimerTick ==
  /\ connection.started
  /\ ~connection.stopped
  /\ request' = IF connection.currentMode # "websocket" THEN "none"
                ELSE IF wsClient.ws = "open" THEN "ttl_refresh" ELSE "none"
  /\ UNCHANGED <<connection, pollingClient, wsClient, visible>>
  /\ FrameConnection

\* one second passes since the last applied app-state change
AppStateChangeAges ==
  /\ connection.lastAppStateChange = "recent"
  /\ connection' = [connection EXCEPT !.lastAppStateChange = "old"]
  /\ request' = "none"
  /\ UNCHANGED <<pollingClient, wsClient, visible>>
  /\ FrameConnection

InitConnection ==
  /\ connection = [started |-> FALSE, currentMode |-> "none", appState |-> "foreground",
                   sessionMode |-> "active", appStateTimeout |-> "none",
                   lastAppStateChange |-> "old", switchTimers |-> <<>>,
                   stopped |-> FALSE]
  /\ pollingClient = [interval |-> 0, pollingInterval |-> DefaultPollingInterval,
                      onMetrics |-> FALSE, isActive |-> FALSE]
  /\ wsClient = [ws |-> "none", isIntentionallyClosed |-> FALSE, url |-> "valid",
                 reconnectAttempts |-> 0, reconnectTimeout |-> 0]
  /\ visible = "foreground"
  /\ request = "none"

NextConnection ==
  \/ \E a \in {"foreground", "background"}, u \in {"valid", "invalid"} : ConnectionStart(a, u)
  \/ \E v \in {"foreground", "background"} : VisibilityBeforeStart(v)
  \/ \E v \in {"foreground", "background"} : UpdateAppState(v)
  \/ AppStateTimeout
  \/ \E m \in {"active", "passive_active"} : UpdateSessionMode(m)
  \/ PollingStartTimeout
  \/ WsOpen
  \/ WsOnClose
  \/ ReconnectTimeout
  \/ ConnectionStop
  \/ PollingTick
  \/ RefreshTimerTick
  \/ AppStateChangeAges

(***************************************************************************)
(* Server side metrics: the WebSocketServer's per-connection handlers       *)
(* (auth, close), BroadcastService and EMAService.  The auth handler awaits *)
(* getPresence between setting the closure's customerId and registering     *)
(* the socket, so it takes two steps.  An EMA tick (every 30 s) is one      *)
(* step.  EMA values are exact rationals, kept as integers scaled by        *)
(* EmaScale; counts come from CountValues.                                  *)
(***************************************************************************)
Sockets == 1..MaxSockets
Customers == {"a", "b"}
CountValues == {10, 20}

\* alpha = AlphaNum / AlphaDen
AlphaNum == 1
AlphaDen == 5

\* after MaxTicks updates the denominator of an EMA divides AlphaDen^(MaxTicks-1)
EmaScale == Power(AlphaDen, MaxTicks - 1)

\* the weights of the count and of the previous EMA exchanged
NewEMAWeightsExchanged(currentCount, previousEMA) ==
  IF previousEMA = <<>> THEN currentCount * EmaScale
  ELSE ((AlphaDen - AlphaNum) * currentCount * EmaScale + AlphaNum * previousEMA[1]) \div AlphaDen

\* EMAService.calculateAndUpdate: the new EMA from the count and getEMA's answer
NewEMA(currentCount, previousEMA) ==
  IF previousEMA = <<>> THEN currentCount * EmaScale
  ELSE (AlphaNum * currentCount * EmaScale + (AlphaDen - AlphaNum) * previousEMA[1]) \div AlphaDen

\* BroadcastService.registerClient
RegisterClient(clients, customerId, s) ==
  [clients EXCEPT ![customerId] = @ \cup {s}]

\* BroadcastService.unregisterClient
UnregisterClient(clients, customerId, s) ==
  [clients EXCEPT ![customerId] = @ \ {s}]

\* BroadcastService.broadcastViaWebSocket: the sockets the message is sent to
BroadcastViaWebSocket(customerId) ==
  {s \in wsClients[customerId] : socket[s].readyState = "open"}

NoMetricsUpdate == [customerId |-> "none", count |-> 0, ema |-> 0, to |-> {}]

FrameMetrics ==
  UNCHANGED <<varsUnload, varsLeader, varsStore, varsSession, varsConnection, varsRegistry,
              varsBeat>>

\* a client connects
WsConnection(s) ==
  /\ socket[s].readyState = "none"
  /\ socket' = [socket EXCEPT ![s].readyState = "open"]
  /\ metricsUpdate' = NoMetricsUpdate
  /\ UNCHANGED <<wsClients, emaKey, counts>>
  /\ FrameMetrics

\* message 'auth' up to its await: customerId = message.customerId, getPresence issued
AuthMessage(s, customerId) ==
  /\ socket[s].readyState = "open"
  /\ socket[s].pendingAuth < MaxPending
  /\ socket' = [socket EXCEPT ![s].customerId = customerId, ![s].pendingAuth = @ + 1]
  /\ metricsUpdate' = NoMetricsUpdate
  /\ UNCHANGED <<wsClients, emaKey, counts>>
  /\ FrameMetrics

\* the auth handler after getPresence: registerClient(customerId, ws) with the
\* closure's customerId as it is now, whether or not the socket is still open
AuthRegister(s) ==
  /\ socket[s].pendingAuth > 0
  /\ socket' = [socket EXCEPT ![s].pendingAuth = @ - 1]
  /\ wsClients' = RegisterClient(wsClients, socket[s].customerId, s)
  /\ metricsUpdate' = NoMetricsUpdate
  /\ UNCHANGED <<emaKey, counts>>
  /\ FrameMetrics

\* ws.on('close'): if (customerId) unregisterClient(customerId, ws)
OnClose(s) ==
  /\ socket[s].readyState = "open"
  /\ socket' = [socket EXCEPT ![s].readyState = "closed"]
  /\ wsClients' = IF socket[s].customerId # "unset"
                  THEN UnregisterClient(wsClients, socket[s].customerId, s)
                  ELSE wsClients
  /\ metricsUpdate' = NoMetricsUpdate
  /\ UNCHANGED <<emaKey, counts>>
  /\ FrameMetrics

\* the EMA interval of a customer fires: calculateAndUpdate, then the onUpdate
\* callback, broadcastMetrics(customerId, count, ema)
CalculateAndUpdate(customerId, currentCount) ==
  /\ Len(counts["a"]) + Len(counts["b"]) < MaxTicks
  /\ LET newEMA == NewEMA(currentCount, emaKey[customerId])
     IN /\ emaKey' = [emaKey EXCEPT ![customerId] = <<newEMA>>]
        /\ metricsUpdate' = [customerId |-> customerId, count |-> currentCount,
                             ema |-> newEMA, to |-> BroadcastViaWebSocket(customerId)]
  /\ counts' = [counts EXCEPT ![customerId] = Append(@, currentCount)]
  /\ UNCHANGED <<socket, wsClients>>
  /\ FrameMetrics

InitMetrics ==
  /\ socket = [s \in Sockets |-> [readyState |-> "none", customerId |-> "unset", pendingAuth |-> 0]]
  /\ wsClients = [c \in Customers |-> {}]
  /\ emaKey = [c \in Customers |-> <<>>]
  /\ counts = [c \in Customers |-> <<>>]
  /\ metricsUpdate = NoMetricsUpdate

NextMetrics ==
  \/ \E s \in Sockets : WsConnection(s)
  \/ \E s \in Sockets, c \in Customers : AuthMessage(s, c)
  \/ \E s \in Sockets : AuthRegister(s)
  \/ \E s \in Sockets : OnClose(s)
  \/ \E c \in Customers, n \in CountValues : CalculateAndUpdate(c, n)

(***************************************************************************)
(* Tab registry of TabLeaderManager: allTabs, kept up to date by the        *)
(* who_is_here / i_am_here / tab_state / tab_closed messages and pruned by  *)
(* cleanupOldTabs.  The election messages on the same channel do not touch  *)
(* allTabs and are left out.  A message takes milliseconds, so the 30 s of  *)
(* maxAge pass only while no message is queued.                             *)
(***************************************************************************)
\* TabLeaderManager.getTabCounts
GetTabCounts(t) ==
  [total |-> Cardinality({p \in Tabs : allTabs[t][p] # "none"}),
   background |-> Cardinality({p \in Tabs : allTabs[t][p] = "background"})]

\* BroadcastChannel.postMessage of msgs by tab t: queued at every other open tab
PostAll(t, msgs) ==
  [u \in Tabs |-> IF u # t /\ tabState[u] # "closed" THEN channel[u] \o msgs ELSE channel[u]]

FrameRegistry ==
  UNCHANGED <<varsUnload, varsLeader, varsStore, varsSession, varsConnection, varsMetrics,
              varsBeat>>

\* constructor and start(): own entry 'foreground', discoverExistingTabs
RegistryStart(t) ==
  /\ tabState[t] = "closed"
  /\ \A u \in Tabs : Len(channel[u]) + 2 <= MaxInbox + 1
  /\ tabState' = [tabState EXCEPT ![t] = "foreground"]
  /\ allTabs' = [allTabs EXCEPT ![t] = [p \in Tabs |-> IF p = t THEN "foreground" ELSE "none"]]
  /\ lastSeenOld' = [lastSeenOld EXCEPT ![t] = {}]
  /\ channel' = [PostAll(t, << [type |-> "who_is_here", tabId |-> t, state |-> "none"],
                             [type |-> "i_am_here", tabId |-> t, state |-> "foreground"] >>)
                   EXCEPT ![t] = <<>>]
  /\ FrameRegistry

\* the visibility handlers: updateMyTabState(state)
UpdateMyTabState(t, state) ==
  /\ tabState[t] \notin {"closed", state}
  /\ \A u \in Tabs : Len(channel[u]) <= MaxInbox
  /\ tabState' = [tabState EXCEPT ![t] = state]
  /\ allTabs' = [allTabs EXCEPT ![t][t] = state]
  /\ channel' = PostAll(t, << [type |-> "tab_state", tabId |-> t, state |-> state] >>)
  /\ UNCHANGED lastSeenOld
  /\ FrameRegistry

\* channel.onmessage, registry message types
OnRegistryMessage(t) ==
  /\ tabState[t] # "closed"
  /\ channel[t] # <<>>
  /\ LET msg == Head(channel[t])
         rest == [channel EXCEPT ![t] = Tail(@)]
     IN CASE msg.type = "who_is_here" ->
               \* announceMyself
               /\ channel' = [u \in Tabs |->
                                IF u # t /\ tabState[u] # "closed"
                                THEN rest[u] \o << [type |-> "i_am_here", tabId |-> t,
                                                     state |-> allTabs[t][t]] >>
                                ELSE rest[u]]
               /\ UNCHANGED <<allTabs, lastSeenOld>>
          [] msg.type \in {"i_am_here", "tab_state"} ->
               \* updateTabState: entry set, lastSeen = now
               /\ allTabs' = [allTabs EXCEPT ![t][msg.tabId] = msg.state]
               /\ lastSeenOld' = [lastSeenOld EXCEPT ![t] = @ \ {msg.tabId}]
               /\ channel' = rest
          [] msg.type = "tab_closed" ->
               \* removeTab
               /\ allTabs' = [allTabs EXCEPT ![t][msg.tabId] = "none"]
               /\ lastSeenOld' = [lastSeenOld EXCEPT ![t] = @ \ {msg.tabId}]
               /\ channel' = rest
  /\ UNCHANGED tabState
  /\ FrameRegistry

\* 30 s pass at tab t since the last i_am_here / tab_state of peer p
LastSeenAges(t, p) ==
  /\ tabState[t] # "closed"
  /\ \A u \in Tabs : channel[u] = <<>>
  /\ p # t
  /\ allTabs[t][p] # "none"
  /\ p \notin lastSeenOld[t]
  /\ lastSeenOld' = [lastSeenOld EXCEPT ![t] = @ \cup {p}]
  /\ UNCHANGED <<tabState, allTabs, channel>>
  /\ FrameRegistry

\* the 10 s interval of start(): cleanupOldTabs
CleanupOldTabs(t) ==
  /\ tabState[t] # "closed"
  /\ lastSeenOld[t] # {}
  /\ allTabs' = [allTabs EXCEPT ![t] =
                   [p \in Tabs |-> IF p \in lastSeenOld[t] THEN "none" ELSE allTabs[t][p]]]
  /\ lastSeenOld' = [lastSeenOld EXCEPT ![t] = {}]
  /\ UNCHANGED <<tabState, channel>>
  /\ FrameRegistry

\* stop(): tab_closed is broadcast and the channel is closed
RegistryStop(t) ==
  /\ tabState[t] # "closed"
  /\ \A u \in Tabs : Len(channel[u]) <= MaxInbox
  /\ tabState' = [tabState EXCEPT ![t] = "closed"]
  /\ allTabs' = [allTabs EXCEPT ![t] = [p \in Tabs |-> "none"]]
  /\ lastSeenOld' = [lastSeenOld EXCEPT ![t] = {}]
  /\ channel' = [PostAll(t, << [type |-> "tab_closed", tabId |-> t, state |-> "none"] >>)
                   EXCEPT ![t] = <<>>]
  /\ FrameRegistry

InitRegistry ==
  /\ tabState = [t \in Tabs |-> "closed"]
  /\ allTabs = [t \in Tabs |-> [p \in Tabs |-> "none"]]
  /\ lastSeenOld = [t \in Tabs |-> {}]
  /\ channel = [t \in Tabs |-> <<>>]

NextRegistry ==
  \/ \E t \in Tabs : RegistryStart(t)
  \/ \E t \in Tabs, state \in {"foreground", "background"} : UpdateMyTabState(t, state)
  \/ \E t \in Tabs : OnRegistryMessage(t)
  \/ \E t, p \in Tabs : LastSeenAges(t, p)
  \/ \E t \in Tabs : CleanupOldTabs(t)
  \/ \E t \in Tabs : RegistryStop(t)

InitLeader ==
  /\ tab = [t \in Tabs |-> ClosedTab]
  /\ inbox = [t \in Tabs |-> <<>>]
  /\ lastSent = NoRequest
  /\ isDesktop \in BOOLEAN
  /\ events = 0

NextLeader ==
  \/ \E t \in Tabs : OpenTab(t)
  \/ \E t \in Tabs : CloseTab(t)
  \/ \E t \in Tabs : OnMessage(t)
  \/ \E t \in Tabs : ExistingLeaderTimeout(t)
  \/ \E t \in Tabs : TriggerTimeout(t)
  \/ \E t \in Tabs : ElectionTimeout(t)
  \/ \E t \in Tabs : CheckLeaderHealth(t)
  \/ \E t \in Tabs : Elapse(t)
  \/ \E t \in Tabs, v \in {"foreground", "background"} : SetState(t, v)
  \/ \E t \in Tabs : VisibilityDebounceTimeout(t)
  \/ \E t \in Tabs : MobileCleanupTimeout(t)
  \/ \E t \in Tabs : ForegroundInactivityTimeout(t)
  \/ \E t \in Tabs : PassiveInactivityTimeout(t)
  \/ \E t \in Tabs : OnUserActivity(t)
  \/ \E t \in Tabs : JoinDispatch(t)
  \/ \E t \in Tabs : JoinBuildThrows(t)
  \/ \E t \in Tabs : JoinCooldownTimeout(t)
  \/ \E t \in Tabs, websocket \in BOOLEAN : TTLRefreshTick(t, websocket)

InitUnload ==
  /\ leaveSent = FALSE
  /\ isInternalNavPlanned = FALSE
  /\ isReloadPlanned = FALSE
  /\ plannedExternal = FALSE
  /\ visibilityChangeTimeoutId = FALSE
  /\ navIntent = "unknown"
  /\ refreshFlag = FALSE
  /\ visibilityState = "visible"
  /\ page = "live"
  /\ docs = 1
  /\ navType = "navigate"
  /\ fsmRemoved = FALSE
  /\ leaves = <<>>
  /\ extMarked = FALSE
  /\ reloadMarked = FALSE
  /\ bfUnknown = FALSE
  /\ lastEvent = "init"

NextUnload ==
  \/ KeydownReload
  \/ LocationReload
  \/ \E r \in BOOLEAN, s \in BOOLEAN : NavigateEvent(r, s)
  \/ \E n \in BOOLEAN, s \in BOOLEAN : ClickLink(n, s)
  \/ \E s \in BOOLEAN : SubmitForm(s)
  \/ SpaNavigate
  \/ \E v \in {"visible", "hidden"} : VisibilityChange(v)
  \/ VisibilityTimeout
  \/ \E p \in BOOLEAN : PageHide(p)
  \/ Freeze
  \/ Unload
  \/ \E ok \in BOOLEAN : BeforeUnload(ok)
  \/ PageShowPersisted
  \/ \E r \in BOOLEAN, sh \in BOOLEAN : NewDocument(r, sh)
  \/ SendLeaveForce
  \/ ResetLeaveSentFlag

Init ==
  InitUnload /\ InitLeader /\ InitStore /\ InitSession /\ InitConnection /\ InitMetrics
  /\ InitRegistry /\ InitBeat /\ InitPing

SpecUnload == Init /\ [][NextUnload]_vars

SpecLeader == Init /\ [][NextLeader]_vars

SpecStore == Init /\ [][NextStore]_vars

SpecSession == Init /\ [][NextSession]_vars

SpecConnection == Init /\ [][NextConnection]_vars

SpecMetrics == Init /\ [][NextMetrics]_vars

SpecRegistry == Init /\ [][NextRegistry]_vars

SpecBeat == Init /\ [][NextBeat]_vars

SpecPing == Init /\ [][NextPing]_vars

\* ---- a stable configuration of two tabs --------------------------------
\* a tab after init() has completed (start-up timers fired, initial JOIN sent
\* and its cooldown over), in the foreground, with its FSM tracking
StartedTab ==
  [ClosedTab EXCEPT !.phase = "open", !.foregroundInactivityTimer = TRUE]

\* both tabs are open and started; tab 1 won the start-up election and tab 2
\* has just received its leader_beat.  From here no tab is opened or closed
\* and no visibility changes: only the 10 s health checks, the elections they
\* start, the FSM's inactivity timers with the JOINs they cause, and the
\* passing of time
InitStable ==
  /\ InitUnload /\ InitStore /\ InitSession /\ InitConnection /\ InitMetrics /\ InitRegistry
  /\ InitBeat /\ InitPing
  /\ tab = [t \in Tabs |->
              IF t = 1 THEN [StartedTab EXCEPT !.isLeader = TRUE, !.ttlRefreshTimer = TRUE]
              ELSE [StartedTab EXCEPT !.lastLeaderBeat = "fresh"]]
  /\ inbox = [t \in Tabs |-> <<>>]
  /\ lastSent = NoRequest
  /\ isDesktop \in BOOLEAN
  /\ events = 0

NextStable ==
  \/ \E t \in Tabs : OnMessage(t)
  \/ \E t \in Tabs : ElectionTimeout(t)
  \/ \E t \in Tabs : CheckLeaderHealth(t)
  \/ \E t \in Tabs : Elapse(t)
  \/ \E t \in Tabs : ForegroundInactivityTimeout(t)
  \/ \E t \in Tabs : PassiveInactivityTimeout(t)
  \/ \E t \in Tabs : JoinDispatch(t)
  \/ \E t \in Tabs : JoinCooldownTimeout(t)

SpecStable == InitStable /\ [][NextStable]_vars

(***************************************************************************)
(*                      PROPERTIES: UNLOAD CLASSIFIER                      *)
(***************************************************************************)
NormalLeaves == {i \in 1..Len(leaves) : ~leaves[i].force}

\* C5: if external was marked during the unload pass, every LEAVE emitted for
\* it (by any decision point) has mode FINAL and reason external.
C5_ExternalLeaveIsFinal ==
  \A i \in NormalLeaves :
    leaves[i].ext => (leaves[i].mode = "final" /\ leaves[i].reason = "external")

\* C6: once the decision for the unload is "emit FINAL external", a later
\* intent signal (internal or reload, F5 keydown included) leaves it so.
C6_ExternalNotDowngraded ==
  [][(extMarked /\ CurrentDecision = "external" /\ lastEvent' \in SignalEvents)
       => CurrentDecision' = "external"]_vars

\* C7: a LEAVE is never emitted at a decision point that was reached with the
\* reload flag set, nor at a later decision point of the same unload.
C7_ReloadSuppressesLeave ==
  \A i \in NormalLeaves : ~leaves[i].reload

\* C7 witness: a decision point ran with the reload flag set and suppressed.
C7_Witness ==
  /\ reloadMarked
  /\ leaveSent
  /\ lastEvent \in {"visibilityTimer", "pagehide", "freeze", "unload"}
  /\ leaves = <<>>

\* C8: no LEAVE is emitted, by any handler, when the effective intent at the
\* unload is internal.
C8_InternalNoLeave ==
  \A i \in NormalLeaves : leaves[i].intent # "internal"

\* C9: across all decision points of one unload at most one LEAVE is
\* dispatched, not counting the forced LEAVE of the FSM entering removed.
C9_AtMostOneLeave == Cardinality(NormalLeaves) <= 1

\* C9 witness: a LEAVE went out at one decision point and a later decision
\* point of the same unload ran as well.
C9_Witness ==
  /\ Cardinality(NormalLeaves) = 1
  /\ page = "gone"
  /\ lastEvent = "unload"

\* C10: when the page entered the back/forward cache with intent unknown, no
\* handler emitted a LEAVE for that page transition.
C10_BFCacheUnknownNoLeave ==
  bfUnknown => \A i \in NormalLeaves : ~leaves[i].nav

(***************************************************************************)
(*                      PROPERTIES: LEADER ELECTION                        *)
(***************************************************************************)
Leaders == {t \in Tabs : tab[t].isLeader}

\* C1: at every moment at most one tab of the session holds isLeader = true.
C1_AtMostOneLeader == Cardinality(Leaders) <= 1

\* C2: every JOIN and every TTL refresh for the session was sent by a tab that
\* was leader when it sent it.
C2_OnlyLeaderWrites ==
  lastSent.kind \in {"join", "ttl_refresh"} => lastSent.isLeader

(***************************************************************************)
(*                      PROPERTIES: PRESENCE STORE                         *)
(***************************************************************************)
\* C3: when a JOIN or a TTL refresh has been fully processed and the key is
\* there, its remaining TTL is positive and at most the TTL of the session
\* mode stored in the record (600 active, 300 passive_active).
C3_TTLWithinModeBound ==
  (completed \in {"join", "ttl_refresh"} /\ redis.present)
    => (redis.ttl > 0 /\ redis.ttl <= GetSessionBasedTTL(redis.session_mode))

\* C4: the record is removed only by an explicit LEAVE, by the expiry of its
\* TTL, or by the disconnect resolver.
C4_RemovedOnlyByLeaveExpiryResolver ==
  removedBy \in {"none", "leave", "expiry", "resolver"}

\* C11: once a JOIN that arrived after a mobile session's socket closed, and
\* before the 10 s timer fired, has been processed, no disconnect timer is
\* registered or running for the session and the resolver does not remove the key.
C11_JoinCancelsDisconnect ==
  (sessionDevice = "mobile" /\ rejoin = "processed")
    => (disconnect \notin {"timer", "ttl", "del"} /\ removedBy # "resolver")

\* C12: for a session whose JOINs report a desktop device, the disconnect
\* resolver's timer is never registered or running, and the resolver never
\* removes the record.
C12_DesktopNeverResolved ==
  sessionDevice = "desktop"
    => (disconnect \notin {"timer", "ttl", "del"} /\ removedBy # "resolver")

\* C13: two tabs of the same customer whose SessionState was constructed at the
\* same moment (so inside one 24 h window, racing while nothing or an expired
\* value is stored) hold the same sessionId.
C13_TabsShareSessionId ==
  \A t \in Tabs, u \in Tabs :
    (sessionState[t].pc = "done" /\ sessionState[u].pc = "done"
       /\ sessionState[t].createdAt = sessionState[u].createdAt)
      => sessionState[t].sessionId = sessionState[u].sessionId

\* C14: when the 80 ms election timer of a candidate fires while a tab with a
\* smaller tabId is a candidate of the same round (its own election timer is
\* still pending), the larger candidate does not come out of the round as leader.
C14_SmallestCandidateWins ==
  [][\A t \in Tabs, u \in Tabs :
       (u < t /\ tab[u].electionTimers > 0 /\ tab[t].electionTimers > 0
          /\ tab'[t].electionTimers < tab[t].electionTimers)
         => ~tab'[t].isLeader]_vars

\* C15: a surviving follower starts a new election less than 3 s after the last
\* leader beat it saw: whenever that beat is older than 3 s, the tab has already
\* entered an election (it is in its own candidates set).
C15_ElectionWithinThreeSeconds ==
  \A t \in Tabs :
    (tab[t].phase = "open" /\ ~tab[t].isLeader /\ tab[t].lastLeaderBeat = "stale")
      => t \in tab[t].candidates

C17_RemovedOnlyFromPassiveActive ==
  [][\A t \in Tabs :
       (tab'[t].currentState = "removed" /\ tab[t].currentState # "removed")
         => tab[t].currentState = "passive_active"]_vars

\* C18: on a mobile or tablet device the session-mode FSM is inert: no tab has an
\* inactivity timer armed, the FSM state never leaves its initial value, and no
\* mode-change JOIN and no forced LEAVE is sent.
C18_MobileFsmInert ==
  ~isDesktop =>
    /\ \A t \in Tabs :
         /\ ~tab[t].foregroundInactivityTimer
         /\ ~tab[t].passiveInactivityTimer
         /\ tab[t].currentState = "active"
    /\ lastSent.cause \notin {"modeChange", "removed"}

\* C19: with every change of the session mode between active and passive_active
\* that the FSM reports from the visibility handler, a JOIN carrying the new
\* session_mode is on its way (the tab has a JOIN awaiting dispatch, which reads
\* the mode when it is sent), also when a JOIN is in flight or in its 1 s cooldown.
C19_ModeChangeSendsJoin ==
  [][\A t \in Tabs :
       (/\ tab'[t].phase = "open"
        /\ tab'[t].visibilityTimers < tab[t].visibilityTimers
        /\ tab[t].currentState \in {"active", "passive_active"}
        /\ tab'[t].currentState \in {"active", "passive_active"}
        /\ tab'[t].currentState # tab[t].currentState)
         => (tab'[t].joinStage = "detect"
               /\ tab'[t].currentSessionMode = tab'[t].currentState)]_vars

\* C20: the FSM leaves removed (and its timers are re-armed) only in the step
\* that sends the tab's rejoin JOIN, which carries the mode derived from the
\* current visibility: while that JOIN is awaiting dispatch the FSM stays removed.
C20_RejoinBeforeReactivation ==
  [][\A t \in Tabs :
       (tab'[t].phase = "open" /\ tab[t].currentState = "removed"
          /\ tab[t].joinCaller = "rejoin" /\ tab'[t].currentState # "removed")
         => (/\ lastSent'.kind = "join" /\ lastSent'.tabId = t
             /\ lastSent'.session_mode = tab'[t].currentState)]_vars

\* C21: whenever the connection is started and no switch or debounce timer is
\* pending (and the last applied change is more than 1 s old), the transport in
\* use is the one the selection rule gives for (session_mode, visibility).
C21_TransportMatchesRule ==
  (/\ connection.started
   /\ connection.appStateTimeout = "none"
   /\ connection.switchTimers = <<>>
   /\ connection.lastAppStateChange = "old")
    => IF connection.sessionMode = "passive_active"
       THEN pollingClient.interval = pollingIntervalPassive /\ wsClient.ws = "none"
       ELSE IF visible = "foreground"
       THEN wsClient.ws # "none" /\ pollingClient.interval = 0
       ELSE pollingClient.interval = pollingInterval /\ wsClient.ws = "none"

\* C22: in polling mode every periodic step (a polling cycle, a tick of the TTL
\* refresh timer) sends a JOIN body to the server.
C22_PollingCycleSendsJoin ==
  [][(connection.currentMode = "polling" /\ (PollingTick \/ RefreshTimerTick))
       => request' = "join"]_vars

\* C23: whenever a command of updatePresence overwrites a key that has a TTL,
\* the TTL that updatePresence puts back is that TTL or a longer one (never
\* a shorter one, never none).
C23_UpdateKeepsTTL ==
  [][((UpdatePresenceSet \/ UpdatePresenceExpire) /\ redis.ttl > 0)
       => refresh.currentTTL >= redis.ttl]_vars

\* C25: when the JOIN of a payload without the field writes over an existing
\* record, the record's value of the field is the same after the write.
C25_OmittedFieldsKept ==
  [][(SetPresenceSet /\ join.payload = <<>> /\ redis.present)
       => redis'.total_tab_quantity = redis.total_tab_quantity]_vars

\* C24: when the server has fully processed a TTL refresh, the record of the
\* session exists, also when there was none while the refresh was handled.
C24_RefreshCreatesMissingRecord ==
  [][(refresh.pc # "idle" /\ refresh'.pc = "idle") => redis'.present]_vars

\* C26: the step that finishes the handling of a PENDING LEAVE does not remove
\* the record (only a FINAL LEAVE removes it at once).
C26_PendingLeaveKeepsRecord ==
  [][(leave = "pending" /\ leave' = "idle" /\ redis.present) => redis'.present]_vars

\* C27: a metrics:update for a customer goes to every open socket whose auth
\* for that customer has been processed, to no closed socket, and to no socket
\* whose last auth, fully processed, was for another customer.
C27_BroadcastReachesExactlyCustomerSockets ==
  metricsUpdate.customerId # "none" =>
    /\ \A s \in metricsUpdate.to :
         /\ socket[s].readyState = "open"
         /\ socket[s].pendingAuth = 0 => socket[s].customerId = metricsUpdate.customerId
    /\ \A s \in Sockets :
         (/\ socket[s].readyState = "open"
          /\ socket[s].customerId = metricsUpdate.customerId
          /\ socket[s].pendingAuth = 0) => s \in metricsUpdate.to

\* C28: on every EMA tick of a customer the EMA that is stored, and broadcast
\* with the count, is the count itself on the first tick and afterwards
\* alpha * count + (1 - alpha) * previous EMA, exactly; the counts
\* 10, 10, 10, 20, 20 give 10, 10, 10, 12, 13.6.
C28_EmaLaw ==
  [][\A c \in Customers :
       counts'[c] # counts[c] =>
         LET k == Len(counts'[c])
             count == counts'[c][k]
             ema == emaKey'[c][1]
         IN /\ counts[c] = <<>> => ema = count * EmaScale
            /\ counts[c] # <<>> =>
                 AlphaDen * ema
                   = AlphaNum * count * EmaScale + (AlphaDen - AlphaNum) * emaKey[c][1]
            /\ metricsUpdate' = [customerId |-> c, count |-> count, ema |-> ema,
                                 to |-> metricsUpdate'.to]
            /\ counts'[c] \in {<<10>>, <<10, 10>>, <<10, 10, 10>>} => ema = 10 * EmaScale
            /\ counts'[c] = <<10, 10, 10, 20>> => ema = 12 * EmaScale
            /\ counts'[c] = <<10, 10, 10, 20, 20>> => 10 * ema = 136 * EmaScale]_vars

C28_Witness ==
  /\ counts["a"] = <<10, 10, 10, 20, 20>>
  /\ metricsUpdate.customerId = "a"
  /\ 10 * metricsUpdate.ema = 136 * EmaScale

\* C29: when no registry message is queued at any tab, every open tab counts
\* as total the number of open tabs and as background the number of open tabs
\* that are in background.
C29_TabCountsMatchOpenTabs ==
  (\A u \in Tabs : channel[u] = <<>>) =>
    \A t \in Tabs :
      tabState[t] # "closed" =>
        /\ GetTabCounts(t).total = Cardinality({p \in Tabs : tabState[p] # "closed"})
        /\ GetTabCounts(t).background = Cardinality({p \in Tabs : tabState[p] = "background"})

\* C30: while the leader's socket is open and no disconnect of it is being
\* resolved, an active record whose TTL has just been set in full by a JOIN or
\* a TTL refresh is removed by nothing but a LEAVE.
C30_RefreshedRecordStays ==
  [][(/\ redis.present
      /\ ws = "open"
      /\ disconnect = "idle"
      /\ redis.session_mode = "active"
      /\ redis.ttl = presenceTTL)
       => removedBy' \in {"none", "leave"}]_vars

\* a tab other than t that is open, in the foreground, whose FSM is active and
\* tracking, and that has no JOIN in flight
C31_ForegroundActiveOther(t) ==
  \E u \in Tabs \ {t} :
    /\ tab[u].phase = "open"
    /\ tab[u].visibility = "foreground"
    /\ tab[u].visibilityState = "foreground"
    /\ tab[u].currentState = "active"
    /\ tab[u].currentSessionMode = "active"
    /\ tab[u].foregroundInactivityTimer
    /\ tab[u].joinStage = "idle"

\* C31: while one tab of the session is foreground and active, no other tab
\* sends the LEAVE that removes the session's record or a JOIN that stores
\* session_mode passive_active
C31_OtherTabsLeaveRecordAlone ==
  [][\A t \in Tabs :
       (/\ C31_ForegroundActiveOther(t)
        /\ lastSent'.tabId = t
        /\ lastSent'.kind \in {"leave", "join"})
       => /\ lastSent'.kind # "leave"
          /\ lastSent'.session_mode # "passive_active"]_vars

\* C31, the case of a background follower tab with no JOIN in flight: it
\* sends no LEAVE while another tab is foreground and active
C31_BackgroundTabRemovesRecord ==
  [][\A t \in Tabs :
       (/\ C31_ForegroundActiveOther(t)
        /\ tab[t].visibility = "background"
        /\ ~tab[t].isLeader
        /\ tab[t].joinStage = "idle"
        /\ lastSent'.tabId = t)
       => lastSent'.kind # "leave"]_vars

\* the open tabs that are leader
C32_Leaders == {t \in Tabs : tab[t].phase = "open" /\ tab[t].isLeader}

\* C32: in a stable configuration with exactly one leader, leadership never
\* changes again: no health check, and no election one starts, displaces a
\* leader that keeps beating
C32_LeaderNeverDisplaced ==
  [][Cardinality(C32_Leaders) = 1 => C32_Leaders' = C32_Leaders]_vars

\* C33: every presence key in the store carries a positive TTL at all times
C33_KeyAlwaysHasTTL == redis.present => redis.ttl > 0

\* C33, between handlers: with no JOIN and no BEAT in progress, the record
\* that is left has an expiry
C33_RecordLeftHasExpiry ==
  (join.pc = "idle" /\ beat.pc = "idle" /\ redis.present) => redis.ttl > 0

\* C34: the leaveSent guard is scoped to a single unload: after the tab was
\* merely hidden and shown again, closing it (pagehide on the live, visible
\* page, no navigation or reload intent recorded) still sends a LEAVE
C34_CloseAfterHideAndShowSendsLeave ==
  [][(/\ PageHide(FALSE)
      /\ page = "live"
      /\ visibilityState = "visible"
      /\ lastEvent = "visibilitychange"
      /\ CurrentDecision = "unknown"
      /\ ~fsmRemoved)
     => Len(leaves') = Len(leaves) + 1]_vars

\* C35: polling and the WebSocket are never active at the same time: the
\* polling timer does not run while the client holds a socket
C35_PollingAndSocketExclusive ==
  ~(pollingClient.interval # 0 /\ wsClient.ws # "none")

\* C38: after an unintended close of the WebSocket the client schedules a
\* retry automatically, the n-th consecutive one after min(1 s * 2^n, 30 s),
\* as long as fewer than 5 attempts were made since the last successful open
C38_UnintendedCloseSchedulesRetry ==
  [][(WsOnClose /\ wsClient.reconnectAttempts < maxReconnectAttempts)
     => /\ wsClient'.reconnectAttempts = wsClient.reconnectAttempts + 1
        /\ wsClient'.reconnectTimeout = ReconnectDelay(wsClient'.reconnectAttempts)]_vars

\* C40: after stop() no timer left pending starts polling or opens a socket
C40_NothingRunsAfterStop ==
  connection.stopped =>
    /\ pollingClient.interval = 0
    /\ wsClient.ws = "none"
    /\ wsClient.reconnectTimeout = 0

\* C36: the JOIN guard is released whatever the outcome: a tab whose
\* pendingJoin is set either has the JOIN still in progress or has the 1 s
\* cooldown timer armed
C36_PendingJoinIsReleased ==
  \A t \in Tabs :
    (tab[t].phase = "open" /\ PendingJoin(tab[t]))
    => tab[t].joinStage \in {"detect", "cooldown"}

\* C39: when the FSM is active or passive_active and no sendJoin is in
\* progress, the FSM state is the client's currentSessionMode
C39_FsmStateIsSessionMode ==
  \A t \in Tabs :
    (/\ tab[t].phase = "open"
     /\ tab[t].currentState \in {"active", "passive_active"}
     /\ tab[t].joinStage = "idle")
    => tab[t].currentState = tab[t].currentSessionMode

\* C39, step by step: after start-up, a step taken with no sendJoin in
\* progress before or after it keeps the FSM state equal to currentSessionMode
C39_StepKeepsFsmStateAndMode ==
  [][\A t \in Tabs :
       (/\ tab[t].phase = "open" /\ tab'[t].phase = "open"
        /\ tab[t].joinStage = "idle" /\ tab'[t].joinStage = "idle"
        /\ ~tab[t].existingLeaderTimer
        /\ tab[t].currentState = tab[t].currentSessionMode
        /\ tab'[t].currentState \in {"active", "passive_active"})
       => tab'[t].currentState = tab'[t].currentSessionMode]_vars

\* C37: the server closes a socket for liveness only when at least 2
\* consecutive pings have gone unanswered
C37_ClosedOnlyAfterTwoUnansweredPings ==
  liveness.readyState = "closed" => liveness.unanswered >= 2

====
